---------------------------- MODULE Spec2Model ----------------------------
(***************************************************************************)
(* A model of ArxivRAG's chunking engine (src/src/chunking.py) and of the  *)
(* nearest-neighbour retrieval step (src/src/evaluation.py).               *)
(*                                                                         *)
(* A Python string is a sequence of one-character strings, so that it can  *)
(* be sliced, stripped, split and joined as the code does.                 *)
(***************************************************************************)
EXTENDS Integers, Sequences, FiniteSets, TLC

(***************************************************************************)
(* Bounds of the model.                                                    *)
(***************************************************************************)
MaxLen == 3
MaxSize == 5
MaxOverlap == 4
MaxSents == 3
MaxCands == 3
MaxK == 4

(***************************************************************************)
(* Characters.  str.strip() removes the characters of Whitespace.          *)
(***************************************************************************)
Whitespace == {" ", "\n", "\t"}
Alphabet == {"a", ".", " ", "\n"}

Min2(a, b) == IF a <= b THEN a ELSE b
Max2(a, b) == IF a >= b THEN a ELSE b
SetMin(S) == CHOOSE x \in S : \A y \in S : x <= y
SetMax(S) == CHOOSE x \in S : \A y \in S : x >= y

\* s[i:j] of Python, i and j 0-based, negative indices counted from the end.
PySlice(s, i, j) ==
    LET n == Len(s)
        lo == IF i < 0 THEN Max2(n + i, 0) ELSE Min2(i, n)
        hi == IF j < 0 THEN Max2(n + j, 0) ELSE Min2(j, n)
    IN IF lo >= hi THEN <<>> ELSE SubSeq(s, lo + 1, hi)

\* s[i:] of Python.
PySliceFrom(s, i) ==
    LET n == Len(s)
        lo == IF i < 0 THEN Max2(n + i, 0) ELSE Min2(i, n)
    IN IF lo >= n THEN <<>> ELSE SubSeq(s, lo + 1, n)

\* s.rstrip(), s.strip() of Python.
RStrip(s) ==
    LET idx == {i \in 1..Len(s) : s[i] \notin Whitespace}
    IN IF idx = {} THEN <<>> ELSE SubSeq(s, 1, SetMax(idx))

Strip(s) ==
    LET idx == {i \in 1..Len(s) : s[i] \notin Whitespace}
    IN IF idx = {} THEN <<>> ELSE SubSeq(s, SetMin(idx), SetMax(idx))

\* sep in text, of Python.
Contains(t, sep) ==
    \E i \in 0..(Len(t) - Len(sep)) : SubSeq(t, i + 1, i + Len(sep)) = sep

\* text.split(sep) of Python for a non-empty sep: the pieces between the
\* non-overlapping occurrences of sep found left to right, empty pieces kept.
RECURSIVE Split(_, _)
Split(t, sep) ==
    LET occ == {i \in 0..(Len(t) - Len(sep)) : SubSeq(t, i + 1, i + Len(sep)) = sep}
    IN IF occ = {} THEN <<t>>
       ELSE LET i == SetMin(occ)
            IN <<SubSeq(t, 1, i)>> \o Split(PySliceFrom(t, i + Len(sep)), sep)

\* sep.join(pieces) of Python.
RECURSIVE Join(_, _)
Join(pieces, sep) ==
    IF pieces = <<>> THEN <<>>
    ELSE IF Len(pieces) = 1 THEN pieces[1]
    ELSE pieces[1] \o sep \o Join(Tail(pieces), sep)

\* list(reversed(s)) of Python.
Reverse(s) == [i \in 1..Len(s) |-> s[Len(s) + 1 - i]]

PARA_SEP == <<"\n", "\n">>
SPACE == <<" ">>

(***************************************************************************)
(* Chunker._fixed_size_chunking                                            *)
(***************************************************************************)
\* Mutant: every window is kept, the "if chunk.strip()" test left out.
keep_chunk_always(chunk) == TRUE

\* if chunk.strip(): the window is kept only when it has a non-whitespace character.
keep_chunk(chunk) == Strip(chunk) # <<>>

\* Mutant: the loop is left after its first pass whatever the sizes are.
loop_guard_always(size, overlap) == TRUE

\* Prevent infinite loop: one pass only when chunk_size <= chunk_overlap.
loop_guard(size, overlap) == size <= overlap

\* Mutant: the window advances by chunk_size, the overlap forgotten.
next_start_no_overlap(start, size, overlap) == start + size

\* start += self.chunk_size - self.chunk_overlap
next_start(start, size, overlap) == start + (size - overlap)

RECURSIVE fixed_loop(_, _, _, _, _)
fixed_loop(t, size, overlap, start, chunks) ==
    IF ~(start < Len(t)) THEN chunks
    ELSE LET end == start + size
             chunk == PySlice(t, start, end)
             chunks2 == IF keep_chunk(chunk) THEN Append(chunks, chunk) ELSE chunks
         IN IF loop_guard(size, overlap) THEN chunks2
            ELSE fixed_loop(t, size, overlap, next_start(start, size, overlap), chunks2)

fixed_size_chunking(t, size, overlap) == fixed_loop(t, size, overlap, 0, <<>>)

(***************************************************************************)
(* Chunker._token_based_chunking.  The tokenizer is byte-pair encoding:    *)
(* encode cuts the text into vocabulary entries, the longest entry that    *)
(* matches first, and decode concatenates the entries of the window.       *)
(***************************************************************************)
Vocabulary ==
    {<<" ", "a">>, <<" ", "b">>, <<"a", "a">>, <<"a", "b">>, <<"\n", "\n">>}

RECURSIVE Encode(_)
Encode(t) ==
    IF t = <<>> THEN <<>>
    ELSE LET m == {v \in Vocabulary : Len(v) <= Len(t) /\ SubSeq(t, 1, Len(v)) = v}
             tok == IF m = {} THEN <<t[1]>> ELSE CHOOSE v \in m : TRUE
         IN <<tok>> \o Encode(PySliceFrom(t, Len(tok)))

Decode(tokens) == Join(tokens, <<>>)

RECURSIVE token_loop(_, _, _, _, _)
token_loop(tokens, size, overlap, start, chunks) ==
    IF ~(start < Len(tokens)) THEN chunks
    ELSE LET end == start + size
             chunk_tokens == PySlice(tokens, start, end)
             chunk == Decode(chunk_tokens)
             chunks2 == IF keep_chunk(chunk) THEN Append(chunks, chunk) ELSE chunks
         IN IF loop_guard(size, overlap) THEN chunks2
            ELSE token_loop(tokens, size, overlap, next_start(start, size, overlap), chunks2)

\* tok = "none": tiktoken could not be loaded, 1 token is taken as 4 characters.
token_based_chunking(t, size, overlap, tok) ==
    IF tok = "none" THEN fixed_size_chunking(t, size * 4, overlap * 4)
    ELSE token_loop(Encode(t), size, overlap, 0, <<>>)

(***************************************************************************)
(* nltk.sent_tokenize, the sentence-boundary collaborator: a sentence ends *)
(* at a "." that is followed by whitespace and a further token; the next   *)
(* sentence starts at that token; the last sentence ends where the text,   *)
(* right-stripped, ends, and is dropped when empty.                        *)
(***************************************************************************)
RECURSIVE sent_slices(_, _)
sent_slices(t, last_break) ==
    LET ends == {p \in (last_break + 1)..Len(t) :
                    /\ t[p] = "."
                    /\ p + 1 <= Len(t)
                    /\ t[p + 1] \in Whitespace
                    /\ \E q \in (p + 2)..Len(t) : t[q] \notin Whitespace}
        last == PySlice(t, last_break, Len(RStrip(t)))
    IN IF ends = {} THEN (IF last = <<>> THEN <<>> ELSE <<last>>)
       ELSE LET p == SetMin(ends)
                q == SetMin({r \in (p + 2)..Len(t) : t[r] \notin Whitespace})
            IN <<SubSeq(t, last_break + 1, p)>> \o sent_slices(t, q - 1)

sent_tokenize(t) == sent_slices(t, 0)

(***************************************************************************)
(* Chunker._sentence_based_chunking.  The loop state is current_chunk      *)
(* (cur), current_size (size) and the chunks emitted so far; each emitted  *)
(* chunk is kept as its list of sentences (sents) with the number of       *)
(* leading sentences that were carried over as overlap (seed).             *)
(***************************************************************************)
RECURSIVE overlap_walk(_, _, _)
overlap_walk(rev, overlap, overlap_sentences) ==
    IF rev = <<>> THEN overlap_sentences
    ELSE LET sent == Head(rev)
             overlap_text == Join(overlap_sentences, SPACE)
         IN IF Len(overlap_text) + Len(sent) <= overlap
            THEN overlap_walk(Tail(rev), overlap, <<sent>> \o overlap_sentences)
            ELSE overlap_sentences

\* Mutant: the sentence that triggers a flush is not put into the next buffer.
sentence_step_drop(st, sentence, size, overlap) ==
    LET sentence_len == Len(sentence)
        flush == st.size + sentence_len > size /\ st.cur # <<>>
        overlap_sentences ==
            IF overlap > 0 THEN overlap_walk(Reverse(st.cur), overlap, <<>>) ELSE <<>>
    IN IF flush
       THEN [groups |-> Append(st.groups, [sents |-> st.cur, seed |-> st.seed]),
             cur |-> overlap_sentences,
             size |-> Len(Join(overlap_sentences, SPACE)),
             seed |-> Len(overlap_sentences)]
       ELSE [st EXCEPT !.cur = st.cur \o <<sentence>>,
                       !.size = st.size + sentence_len + 1]

\* One pass of the loop "for sentence in sentences".
sentence_step(st, sentence, size, overlap) ==
    LET sentence_len == Len(sentence)
        flush == st.size + sentence_len > size /\ st.cur # <<>>
        overlap_sentences ==
            IF overlap > 0 THEN overlap_walk(Reverse(st.cur), overlap, <<>>) ELSE <<>>
        cur1 == IF flush THEN overlap_sentences ELSE st.cur
        size1 == IF flush THEN Len(Join(overlap_sentences, SPACE)) ELSE st.size
        seed1 == IF flush THEN Len(overlap_sentences) ELSE st.seed
        groups1 == IF flush THEN Append(st.groups, [sents |-> st.cur, seed |-> st.seed])
                   ELSE st.groups
    IN [groups |-> groups1, cur |-> cur1 \o <<sentence>>,
        size |-> size1 + sentence_len + 1, seed |-> seed1]

RECURSIVE sentence_loop(_, _, _, _)
sentence_loop(st, sentences, size, overlap) ==
    IF sentences = <<>> THEN st
    ELSE sentence_loop(sentence_step(st, Head(sentences), size, overlap),
                       Tail(sentences), size, overlap)

\* The emitted chunks as sentence groups, the remaining chunk included.
sentence_groups(sentences, size, overlap) ==
    LET st == sentence_loop([groups |-> <<>>, cur |-> <<>>, size |-> 0, seed |-> 0],
                            sentences, size, overlap)
    IN IF st.cur # <<>> THEN Append(st.groups, [sents |-> st.cur, seed |-> st.seed])
       ELSE st.groups

\* " ".join(current_chunk)
group_text(g) == Join(g.sents, SPACE)

sentence_based_chunking(t, size, overlap) ==
    LET gs == sentence_groups(sent_tokenize(t), size, overlap)
    IN [i \in 1..Len(gs) |-> group_text(gs[i])]

(***************************************************************************)
(* Chunker._recursive_chunking and Chunker._recursive_split                *)
(***************************************************************************)
separators == <<PARA_SEP, <<"\n">>, <<".", " ">>, SPACE, <<>>>>

RECURSIVE pick_separator(_, _)
pick_separator(t, seps) ==
    IF seps = <<>> THEN separators[Len(separators)]
    ELSE IF Head(seps) = <<>> THEN <<>>
    ELSE IF Contains(t, Head(seps)) THEN Head(seps)
    ELSE pick_separator(t, Tail(seps))

\* Mutant: the text is always split into its characters.
split_text_chars(t, separator) == [i \in 1..Len(t) |-> <<t[i]>>]

split_text(t, separator) ==
    IF separator # <<>> THEN Split(t, separator) ELSE [i \in 1..Len(t) |-> <<t[i]>>]

\* The chunk text that is emitted when the buffer is flushed.
flushed_text(current_chunk) == Strip(current_chunk)

\* Mutant: a piece is taken only if it leaves the buffer below the size.
recursive_step_strict(st, s, separator, size, overlap) ==
    LET potential_size == Len(st.cur) + Len(s) + Len(separator)
    IN IF potential_size < size
       THEN [st EXCEPT !.cur = st.cur \o s \o separator]
       ELSE LET flush == Strip(st.cur) # <<>>
                final1 == IF flush THEN Append(st.final, flushed_text(st.cur)) ELSE st.final
                prev1 == IF flush THEN st.cur ELSE st.prev
                cur1 == IF overlap > 0 /\ prev1 # <<>>
                        THEN PySliceFrom(prev1, -overlap) \o s \o separator
                        ELSE s \o separator
            IN [final |-> final1, cur |-> cur1, prev |-> prev1]

\* Mutant: the overlap is cut from the front of the flushed buffer.
recursive_step_head_overlap(st, s, separator, size, overlap) ==
    LET potential_size == Len(st.cur) + Len(s) + Len(separator)
    IN IF potential_size <= size
       THEN [st EXCEPT !.cur = st.cur \o s \o separator]
       ELSE LET flush == Strip(st.cur) # <<>>
                final1 == IF flush THEN Append(st.final, flushed_text(st.cur)) ELSE st.final
                prev1 == IF flush THEN st.cur ELSE st.prev
                cur1 == IF overlap > 0 /\ prev1 # <<>>
                        THEN PySlice(prev1, 0, overlap) \o s \o separator
                        ELSE s \o separator
            IN [final |-> final1, cur |-> cur1, prev |-> prev1]

\* Mutant: the whole flushed buffer is carried over as overlap.
recursive_step_whole_overlap(st, s, separator, size, overlap) ==
    LET potential_size == Len(st.cur) + Len(s) + Len(separator)
    IN IF potential_size <= size
       THEN [st EXCEPT !.cur = st.cur \o s \o separator]
       ELSE LET flush == Strip(st.cur) # <<>>
                final1 == IF flush THEN Append(st.final, flushed_text(st.cur)) ELSE st.final
                prev1 == IF flush THEN st.cur ELSE st.prev
                cur1 == IF overlap > 0 /\ prev1 # <<>>
                        THEN prev1 \o s \o separator
                        ELSE s \o separator
            IN [final |-> final1, cur |-> cur1, prev |-> prev1]

recursive_step(st, s, separator, size, overlap) ==
    LET potential_size == Len(st.cur) + Len(s) + Len(separator)
    IN IF potential_size <= size
       THEN [st EXCEPT !.cur = st.cur \o s \o separator]
       ELSE LET flush == Strip(st.cur) # <<>>
                final1 == IF flush THEN Append(st.final, flushed_text(st.cur)) ELSE st.final
                prev1 == IF flush THEN st.cur ELSE st.prev
                cur1 == IF overlap > 0 /\ prev1 # <<>>
                        THEN PySliceFrom(prev1, -overlap) \o s \o separator
                        ELSE s \o separator
            IN [final |-> final1, cur |-> cur1, prev |-> prev1]

RECURSIVE recursive_merge(_, _, _, _, _)
recursive_merge(st, splits, separator, size, overlap) ==
    IF splits = <<>> THEN st
    ELSE recursive_merge(recursive_step(st, Head(splits), separator, size, overlap),
                         Tail(splits), separator, size, overlap)

\* Mutant: the buffer that remains after the loop is not flushed.
recursive_split_no_final(t, seps, size, overlap) ==
    LET separator == pick_separator(t, seps)
    IN recursive_merge([final |-> <<>>, cur |-> <<>>, prev |-> <<>>],
                       split_text(t, separator), separator, size, overlap).final

recursive_split(t, seps, size, overlap) ==
    LET separator == pick_separator(t, seps)
        st == recursive_merge([final |-> <<>>, cur |-> <<>>, prev |-> <<>>],
                              split_text(t, separator), separator, size, overlap)
    IN IF Strip(st.cur) # <<>> THEN Append(st.final, flushed_text(st.cur)) ELSE st.final

recursive_chunking(t, size, overlap) == recursive_split(t, separators, size, overlap)

(***************************************************************************)
(* Chunker._paragraph_chunking                                             *)
(***************************************************************************)
\* Mutant: the paragraphs are stripped but the empty ones are not dropped.
strip_all(ps) == [i \in 1..Len(ps) |-> Strip(ps[i])]

\* [p.strip() for p in ps if p.strip()]
RECURSIVE strip_nonempty(_)
strip_nonempty(ps) ==
    IF ps = <<>> THEN <<>>
    ELSE IF Strip(Head(ps)) # <<>> THEN <<Strip(Head(ps))>> \o strip_nonempty(Tail(ps))
    ELSE strip_nonempty(Tail(ps))

paragraphs_of(t) == strip_nonempty(Split(t, PARA_SEP))

\* Mutant: the overlap is cut from the front of the previous paragraph.
paragraph_overlap_head(prev_para, overlap) ==
    IF Len(prev_para) > overlap THEN PySlice(prev_para, 0, overlap) ELSE prev_para

paragraph_overlap(prev_para, overlap) ==
    IF Len(prev_para) > overlap THEN PySliceFrom(prev_para, -overlap) ELSE prev_para

\* Mutant: no early return for chunk_overlap == 0, where prev_para[-0:] is all
\* of prev_para.
paragraph_chunking_no_return(t, overlap) ==
    LET paragraphs == strip_nonempty(Split(t, PARA_SEP))
    IN [i \in 1..Len(paragraphs) |->
          IF i = 1 THEN paragraphs[1]
          ELSE (IF Len(paragraphs[i - 1]) > overlap
                THEN PySliceFrom(paragraphs[i - 1], 0 - overlap)
                ELSE paragraphs[i - 1]) \o PARA_SEP \o paragraphs[i]]

paragraph_chunking(t, overlap) ==
    LET paragraphs == paragraphs_of(t)
    IN IF overlap = 0 THEN paragraphs
       ELSE [i \in 1..Len(paragraphs) |->
               IF i = 1 THEN paragraphs[1]
               ELSE paragraph_overlap(paragraphs[i - 1], overlap) \o PARA_SEP \o paragraphs[i]]

(***************************************************************************)
(* The chunker as a state machine: a Chunker is constructed with a         *)
(* strategy name, chunk_size and chunk_overlap; chunk_text is then called  *)
(* on a text and returns a list of chunks or raises ValueError.            *)
(***************************************************************************)
VARIABLES
    strategy,       \* Chunker.strategy
    chunk_size,     \* Chunker.chunk_size
    chunk_overlap,  \* Chunker.chunk_overlap
    tokenizer,      \* Chunker.tokenizer: set only by the "token" strategy
    pc,             \* "constructed", then "returned" or "raised"
    text,           \* the argument of chunk_text
    chunks,         \* the list chunk_text returned
    groups,         \* sentence strategy: the chunks as sentence groups
    loop_start,     \* _fixed_size_chunking: start, where the next window begins
    query_emb,        \* the embedding of the query
    chunk_embeddings, \* the embeddings of all_chunks, in order
    all_chunks,       \* the chunks that passed the length filter
    doc_indices,      \* doc_indices[i]: the paper id of all_chunks[i]
    k,                \* the number of chunks to retrieve
    rpc,              \* "idle", "ready" or "retrieved"
    top_k_indices,    \* np.argsort(scores)[::-1][:k], 0-based
    retrieved_chunks, \* the first list _retrieve_chunks returns
    retrieved_ids,    \* the second list _retrieve_chunks returns
    relevant_ids,     \* the relevant_ids argument of calculate_recall_at_k
    recalls,          \* recalls[i]: the recall returned for k = i - 1
    all_metrics,      \* the argument of aggregate_metrics: one dict per query
    aggregated,       \* the mapping aggregate_metrics returned
    mpc,              \* "idle", "ready" or "aggregated"
    papers,            \* the papers argument: paper ids in list order
    storage,           \* what the object store holds for each paper id
    test_queries,      \* the test_queries argument: the paper id of each query
    llm_client,        \* Evaluator.llm_client: "vllm" or "none"
    epc,               \* the phase of the experiment that is running
    paper_i,           \* the position of the chunking loop in papers
    query_i,           \* the position of the query loop in test_queries
    all_query_metrics, \* the metrics dict of each query evaluated so far
    experiment_result, \* the dict the experiment returned
    error,             \* the exception that left the experiment, or "none"
    strat_i,           \* main: the position of the loop in strategies
    fallback,          \* main: run_experiment is running in the except branch
    results,           \* main: the result records collected so far
    main_pc,           \* main: "idle", "loop", "report" or "aborted"
    running,           \* "run_rag_experiment", "run_experiment" or "none"
    responses,         \* per query: how generation ended, its text, the ids retrieved
    hits,              \* run_experiment: the papers found among the top k
    reciprocal_ranks   \* run_experiment: the sum of 1 / rank, in sixtieths

chunkVars == <<strategy, chunk_size, chunk_overlap, tokenizer, pc, text, chunks, groups,
               loop_start>>
retrVars == <<query_emb, chunk_embeddings, all_chunks, doc_indices, k, rpc,
              top_k_indices, retrieved_chunks, retrieved_ids>>
metVars == <<relevant_ids, recalls, all_metrics, aggregated, mpc>>
evalVars == <<papers, storage, test_queries, llm_client, epc, paper_i, query_i,
              all_query_metrics, experiment_result, error, strat_i, fallback, results, main_pc,
              running, responses, hits, reciprocal_ranks>>
vars == <<chunkVars, retrVars, metVars, evalVars>>

KnownStrategies == {"fixed", "recursive", "paragraph", "token", "sentence"}
Strategies == KnownStrategies \cup {"semantic"}
Sizes == 0..MaxSize
Overlaps == 0..MaxOverlap

\* The texts chunk_text is called on: every text of up to MaxLen characters,
\* texts of up to MaxSents sentences, and the texts of the documented scenarios.
SeqsUpTo(S, n) == UNION {[1..m -> S] : m \in 0..n}
BoundedTexts == SeqsUpTo(Alphabet, MaxLen)
SentencePool == {<<"a", ".">>, <<"b", ".">>, <<"a", "b", ".">>}
SentenceTexts == {Join(ss, SPACE) : ss \in SeqsUpTo(SentencePool, MaxSents)}
TextAbcdefghij == <<"a", "b", "c", "d", "e", "f", "g", "h", "i", "j">>
TextABCD == <<"A", ".", " ", "B", ".", " ", "C", ".", " ", "D", ".">>
ScenarioTexts ==
    {TextAbcdefghij, TextABCD,
     <<"a", "\n", "\n", "b">>, <<"a", " ", "\n", "\n", "b">>, <<"a", ".", " ", "b">>,
     <<"a", " ", " ", "b">>, <<"a", "\t", "b">>, <<"\t">>,
     <<"a", "b", "\n", "\n", "c">>, <<"a", "\n", "\n", " ", "\n", "\n", "b", "c">>}
Texts == BoundedTexts \cup SentenceTexts \cup ScenarioTexts

RetrIdle ==
    /\ query_emb = <<>>
    /\ chunk_embeddings = <<>>
    /\ all_chunks = <<>>
    /\ doc_indices = <<>>
    /\ k = 0
    /\ rpc = "idle"
    /\ top_k_indices = <<>>
    /\ retrieved_chunks = <<>>
    /\ retrieved_ids = <<>>

\* Chunker.__init__
InitChunker ==
    /\ strategy \in Strategies
    /\ chunk_size \in Sizes
    /\ chunk_overlap \in Overlaps
    /\ tokenizer \in IF strategy = "token" THEN {"tiktoken", "none"} ELSE {"unset"}
    /\ pc = "constructed"
    /\ text = <<>>
    /\ chunks = <<>>
    /\ groups = <<>>
    /\ loop_start = 0

MetIdle ==
    /\ relevant_ids = <<>>
    /\ recalls = <<>>
    /\ all_metrics = <<>>
    /\ aggregated = <<>>
    /\ mpc = "idle"

EvalIdle ==
    /\ papers = <<>>
    /\ storage = <<>>
    /\ test_queries = <<>>
    /\ llm_client = "none"
    /\ epc = "idle"
    /\ paper_i = 0
    /\ query_i = 0
    /\ all_query_metrics = <<>>
    /\ experiment_result = <<>>
    /\ error = "none"
    /\ strat_i = 0
    /\ fallback = FALSE
    /\ results = <<>>
    /\ main_pc = "idle"
    /\ running = "none"
    /\ responses = <<>>
    /\ hits = 0
    /\ reciprocal_ranks = 0

Init == InitChunker /\ RetrIdle /\ MetIdle /\ EvalIdle

Return(t, result, gs) ==
    /\ pc' = "returned"
    /\ text' = t
    /\ chunks' = result
    /\ groups' = gs
    /\ UNCHANGED <<strategy, chunk_size, chunk_overlap, tokenizer, loop_start, retrVars, metVars,
                   evalVars>>

\* chunk_text: if not text: return []
ChunkEmpty(t) ==
    /\ pc = "constructed"
    /\ t = <<>>
    /\ Return(t, <<>>, <<>>)

ChunkFixed(t) ==
    /\ pc = "constructed"
    /\ t # <<>>
    /\ strategy = "fixed"
    /\ Return(t, fixed_size_chunking(t, chunk_size, chunk_overlap), <<>>)

ChunkRecursive(t) ==
    /\ pc = "constructed"
    /\ t # <<>>
    /\ strategy = "recursive"
    /\ Return(t, recursive_chunking(t, chunk_size, chunk_overlap), <<>>)

ChunkParagraph(t) ==
    /\ pc = "constructed"
    /\ t # <<>>
    /\ strategy = "paragraph"
    /\ Return(t, paragraph_chunking(t, chunk_overlap), <<>>)

ChunkToken(t) ==
    /\ pc = "constructed"
    /\ t # <<>>
    /\ strategy = "token"
    /\ Return(t, token_based_chunking(t, chunk_size, chunk_overlap, tokenizer), <<>>)

ChunkSentence(t) ==
    /\ pc = "constructed"
    /\ t # <<>>
    /\ strategy = "sentence"
    /\ Return(t, sentence_based_chunking(t, chunk_size, chunk_overlap),
              sentence_groups(sent_tokenize(t), chunk_size, chunk_overlap))

\* raise ValueError(f"Unknown strategy: {self.strategy}")
ChunkUnknown(t) ==
    /\ pc = "constructed"
    /\ t # <<>>
    /\ strategy \notin KnownStrategies
    /\ pc' = "raised"
    /\ text' = t
    /\ UNCHANGED <<strategy, chunk_size, chunk_overlap, tokenizer, chunks, groups, loop_start,
                   retrVars, metVars, evalVars>>

Next ==
    \E t \in Texts :
        \/ ChunkEmpty(t)
        \/ ChunkFixed(t)
        \/ ChunkRecursive(t)
        \/ ChunkParagraph(t)
        \/ ChunkToken(t)
        \/ ChunkSentence(t)
        \/ ChunkUnknown(t)

Spec == Init /\ [][Next]_vars

(***************************************************************************)
(* Properties of chunk_text.                                               *)
(***************************************************************************)
HasText(t) == Strip(t) # <<>>
Returned == pc = "returned" /\ strategy \in KnownStrategies

\* The chunks joined end to end.
RECURSIVE Flatten(_)
Flatten(ss) == IF ss = <<>> THEN <<>> ELSE Head(ss) \o Flatten(Tail(ss))

\* C1: for each of the five strategies and every text, size and overlap, every
\* chunk chunk_text returns is non-empty after trimming whitespace.
C1_ChunksNotBlank ==
    Returned => \A i \in 1..Len(chunks) : Strip(chunks[i]) # <<>>

\* C1 witness: chunk_text has returned two or more chunks of a text that has a
\* window of whitespace only.
C1_Witness ==
    /\ Returned
    /\ strategy = "fixed"
    /\ chunk_size = 1
    /\ \E i \in 1..Len(text) : text[i] \in Whitespace
    /\ Len(chunks) >= 2

\* C2 as stated: for each strategy and every text, every returned chunk is a
\* contiguous substring of the input text.
C2_Original ==
    Returned => \A i \in 1..Len(chunks) : Contains(text, chunks[i])

\* The strategies that only slice the text: fixed, token without a tokenizer
\* (which is fixed on 4 characters per token), and paragraph without overlap.
SlicingStrategy ==
    \/ strategy = "fixed"
    \/ strategy = "token" /\ tokenizer = "none"
    \/ strategy = "paragraph" /\ chunk_overlap = 0

\* C2 amended: every chunk returned by the fixed strategy, by the token strategy
\* in its character fallback and by the paragraph strategy with chunk_overlap = 0
\* is a contiguous substring of the input text.
C2_SlicedChunksAreSubstrings ==
    Returned /\ SlicingStrategy => \A i \in 1..Len(chunks) : Contains(text, chunks[i])

\* C2 witness: the paragraph strategy without overlap has returned two paragraphs
\* of a text whose paragraphs had to be trimmed.
C2_Witness ==
    /\ Returned
    /\ strategy = "paragraph"
    /\ chunk_overlap = 0
    /\ Len(chunks) = 2
    /\ Len(text) > Len(chunks[1]) + Len(chunks[2]) + 2

\* C3 as stated: chunk_text on a chunker whose strategy is not one of the five
\* ends in the invalid-configuration error for every text, empty or not, and
\* never returns a chunk list.
C3_UnknownStrategyRaises ==
    pc # "constructed" /\ strategy \notin KnownStrategies => pc = "raised"

\* C4: for each of the five strategies chunk_text returns the empty list when
\* the text is empty or has whitespace characters only.
C4_BlankTextGivesNoChunks ==
    Returned /\ ~HasText(text) => chunks = <<>>

\* C4 witness: chunk_text has returned for a text of two or more whitespace
\* characters, split by the recursive strategy.
C4_Witness ==
    /\ Returned
    /\ strategy = "recursive"
    /\ Len(text) >= 2
    /\ ~HasText(text)

\* Where C5 makes a condition on the sizes.
SizeMatters == strategy \in {"fixed", "recursive", "token"}

\* C5 as stated: for every non-empty text chunk_text returns at least one chunk,
\* for fixed, recursive and token whenever chunk_size > chunk_overlap, for
\* paragraph and sentence for any size.
C5_Original ==
    Returned /\ text # <<>> /\ (SizeMatters => chunk_size > chunk_overlap)
        => chunks # <<>>

\* C5 amended: for every text that has a non-whitespace character chunk_text
\* returns at least one chunk, for fixed, recursive and token whenever
\* chunk_size > chunk_overlap >= 0, for paragraph and sentence for any size.
C5_TextGivesAChunk ==
    Returned /\ HasText(text)
             /\ (SizeMatters => chunk_size > chunk_overlap /\ chunk_overlap >= 0)
        => chunks # <<>>

\* C5 witness: a text that starts with whitespace, chunked one character at a
\* time, has given a chunk.
C5_Witness ==
    /\ Returned
    /\ strategy = "fixed"
    /\ chunk_size = 1
    /\ chunk_overlap = 0
    /\ Len(text) >= 2
    /\ text[1] \in Whitespace
    /\ chunks # <<>>

\* The first chunk followed by each later chunk without its first overlap
\* characters.
Reconstruct(cs, overlap) ==
    IF cs = <<>> THEN <<>>
    ELSE Flatten([i \in 1..Len(cs) |->
                    IF i = 1 THEN cs[1] ELSE PySliceFrom(cs[i], overlap)])

\* C6 as stated: for every non-empty text and 0 <= chunk_overlap < chunk_size, the
\* first chunk of fixed-size chunking followed by the later chunks without their
\* leading chunk_overlap characters is the original text.
C6_Original ==
    /\ Returned
    /\ strategy = "fixed"
    /\ text # <<>>
    /\ 0 <= chunk_overlap
    /\ chunk_overlap < chunk_size
    => Reconstruct(chunks, chunk_overlap) = text

\* No window of the text (they start at the multiples of size - overlap) is
\* empty or whitespace only.
NoBlankWindow(t, size, overlap) ==
    \A start \in 0..(Len(t) - 1) :
        start % (size - overlap) = 0 => Strip(PySlice(t, start, start + size)) # <<>>

\* C6 amended: for every non-empty text and 0 <= chunk_overlap < chunk_size such
\* that no window of the text is whitespace only, the first chunk followed by the
\* later chunks without their leading chunk_overlap characters is the text.
C6_FixedReconstructs ==
    /\ Returned
    /\ strategy = "fixed"
    /\ text # <<>>
    /\ 0 <= chunk_overlap
    /\ chunk_overlap < chunk_size
    /\ NoBlankWindow(text, chunk_size, chunk_overlap)
    => Reconstruct(chunks, chunk_overlap) = text

\* C6 witness: fixed-size chunking with an overlap has returned three or more
\* chunks of a text that has whitespace inside.
C6_Witness ==
    /\ Returned
    /\ strategy = "fixed"
    /\ chunk_overlap > 0
    /\ chunk_overlap < chunk_size
    /\ NoBlankWindow(text, chunk_size, chunk_overlap)
    /\ \E i \in 1..Len(text) : text[i] \in Whitespace
    /\ Len(chunks) >= 3

Abcd == <<"a", "b", "c", "d">>
Cdef == <<"c", "d", "e", "f">>
Efgh == <<"e", "f", "g", "h">>
Ghij == <<"g", "h", "i", "j">>
Ij == <<"i", "j">>

Scenario7 ==
    /\ Returned
    /\ strategy = "fixed"
    /\ text = TextAbcdefghij
    /\ chunk_size = 4
    /\ chunk_overlap = 2

\* C7 as stated: fixed-size chunking of "abcdefghij" with chunk_size 4 and
\* chunk_overlap 2 returns exactly "abcd", "cdef", "efgh", "ghij" and no further
\* chunk.
C7_Original == Scenario7 => chunks = <<Abcd, Cdef, Efgh, Ghij>>

\* C7 amended: fixed-size chunking of "abcdefghij" with chunk_size 4 and
\* chunk_overlap 2 returns the five chunks "abcd", "cdef", "efgh", "ghij", "ij":
\* the window that starts at 8 is still inside the text.
C7_FiveChunks == Scenario7 => chunks = <<Abcd, Cdef, Efgh, Ghij, Ij>>

\* C7 witness: the scenario has been run.
C7_Witness == Scenario7 /\ Len(chunks) = 5

\* The sentences of group g that were not carried over from the group before.
OwnSentences(g) == PySliceFrom(g.sents, g.seed)

\* The seed of each group is what it says: the first group has none, and the
\* first seed sentences of a later group are the last seed sentences of the
\* group before it.
SeedsAreCarriedOver(gs) ==
    \A i \in 1..Len(gs) :
        IF i = 1 THEN gs[i].seed = 0
        ELSE /\ gs[i].seed <= Len(gs[i - 1].sents)
             /\ gs[i].seed < Len(gs[i].sents)
             /\ SubSeq(gs[i].sents, 1, gs[i].seed)
                  = PySliceFrom(gs[i - 1].sents, Len(gs[i - 1].sents) - gs[i].seed)

\* C8: in sentence chunking, for every sentence sequence, chunk_size and
\* chunk_overlap, the sentences of the emitted chunks in order, without the
\* leading sentences each chunk after the first carried over as overlap seed, are
\* exactly the original sentence sequence.
C8_SentencesReconstruct ==
    Returned /\ strategy = "sentence" =>
        /\ chunks = [i \in 1..Len(groups) |-> Join(groups[i].sents, SPACE)]
        /\ SeedsAreCarriedOver(groups)
        /\ Flatten([i \in 1..Len(groups) |-> OwnSentences(groups[i])])
             = sent_tokenize(text)

\* C8 witness: sentence chunking has emitted a chunk of two sentences, then a
\* chunk that starts with a carried-over sentence.
C8_Witness ==
    /\ Returned
    /\ strategy = "sentence"
    /\ Len(groups) >= 2
    /\ Len(groups[1].sents) >= 2
    /\ groups[2].seed >= 1

(***************************************************************************)
(* Evaluator._retrieve_chunks.  PaperEmbedder.embed_texts is a function    *)
(* from texts to unit vectors (normalize_embeddings=True); the vectors are *)
(* written in fifths, so that a score, a cosine, is written in 25ths.      *)
(***************************************************************************)
ChunkPool == {"east", "ne", "se"}
QueryPool == {"east", "ne", "north"}
PaperIds == {"p1", "p2"}

embed_text(t) ==
    CASE t = "east" -> <<5, 0>>
      [] t = "ne" -> <<3, 4>>
      [] t = "se" -> <<3, 0 - 4>>
      [] t = "north" -> <<0, 5>>

\* self.embedder.embed_texts(texts)
embed_texts(texts) == [i \in 1..Len(texts) |-> embed_text(texts[i])]

\* cosine_similarity(query_emb, chunk_embeddings)[0]
cosine_similarity(q, embs) ==
    [i \in 1..Len(embs) |-> q[1][1] * embs[i][1] + q[1][2] * embs[i][2]]

\* np.argsort(scores): the 0-based indices in an order of non-decreasing score.
\* The default sort is not stable, so equal scores may come in any order.
argsort(scores) ==
    LET n == Len(scores)
    IN {p \in [1..n -> 0..(n - 1)] :
          /\ \A i, j \in 1..n : i # j => p[i] # p[j]
          /\ \A i \in 1..(n - 1) : scores[p[i] + 1] <= scores[p[i + 1] + 1]}

\* Mutant: the order is not reversed, the k lowest scores are taken.
top_k_ascending(order, kk) == PySlice(order, 0, kk)

\* order[::-1][:k]
top_k(order, kk) == PySlice(Reverse(order), 0, kk)

ChunkIdle ==
    /\ strategy = "recursive"
    /\ chunk_size = 0
    /\ chunk_overlap = 0
    /\ tokenizer = "unset"
    /\ pc = "idle"
    /\ text = <<>>
    /\ chunks = <<>>
    /\ groups = <<>>
    /\ loop_start = 0

\* The arguments of _retrieve_chunks: a non-empty chunk list with its embeddings
\* and paper ids, a query and k >= 1.
InitRetrieve ==
    /\ ChunkIdle
    /\ MetIdle
    /\ EvalIdle
    /\ all_chunks \in SeqsUpTo(ChunkPool, MaxCands) \ {<<>>}
    /\ chunk_embeddings = embed_texts(all_chunks)
    /\ doc_indices \in [1..Len(all_chunks) -> PaperIds]
    /\ \E query \in QueryPool : query_emb = embed_texts(<<query>>)
    /\ k \in 1..MaxK
    /\ rpc = "ready"
    /\ top_k_indices = <<>>
    /\ retrieved_chunks = <<>>
    /\ retrieved_ids = <<>>

Retrieve ==
    /\ rpc = "ready"
    /\ \E order \in argsort(cosine_similarity(query_emb, chunk_embeddings)) :
          LET top == top_k(order, k)
          IN /\ top_k_indices' = top
             /\ retrieved_chunks' = [i \in 1..Len(top) |-> all_chunks[top[i] + 1]]
             /\ retrieved_ids' = [i \in 1..Len(top) |-> doc_indices[top[i] + 1]]
    /\ rpc' = "retrieved"
    /\ UNCHANGED <<query_emb, chunk_embeddings, all_chunks, doc_indices, k, chunkVars, metVars, evalVars>>

NextRetrieve == Retrieve

SpecRetrieve == InitRetrieve /\ [][NextRetrieve]_vars

(***************************************************************************)
(* Properties of _retrieve_chunks.                                         *)
(***************************************************************************)
scores == cosine_similarity(query_emb, chunk_embeddings)
ScoreAt(idx) == scores[idx + 1]
Retrieved == rpc = "retrieved"
TopSet == {top_k_indices[i] : i \in 1..Len(top_k_indices)}

\* C9: for k >= 1 and n candidates _retrieve_chunks returns exactly min(k, n)
\* entries in an order of non-increasing score, no omitted candidate has a
\* strictly higher score than a returned one, and retrieved_ids[i] is the
\* document id of retrieved_chunks[i].
C9_TopKByScore ==
    Retrieved =>
        LET n == Len(all_chunks)
            m == Len(top_k_indices)
        IN /\ m = Min2(k, n)
           /\ Len(retrieved_chunks) = m
           /\ Len(retrieved_ids) = m
           /\ TopSet \subseteq 0..(n - 1)
           /\ Cardinality(TopSet) = m
           /\ \A i, j \in 1..m :
                i < j => ScoreAt(top_k_indices[i]) >= ScoreAt(top_k_indices[j])
           /\ \A c \in (0..(n - 1)) \ TopSet :
                \A r \in TopSet : ScoreAt(c) <= ScoreAt(r)
           /\ \A i \in 1..m :
                /\ retrieved_chunks[i] = all_chunks[top_k_indices[i] + 1]
                /\ retrieved_ids[i] = doc_indices[top_k_indices[i] + 1]

\* C9 witness: with three candidates of three different scores, the candidate
\* at index 1 being the query itself, the two best have been returned, index 1
\* first, and they are of different papers.
C9_Witness ==
    /\ Retrieved
    /\ Len(all_chunks) = 3
    /\ k = 2
    /\ ScoreAt(1) = 25
    /\ ScoreAt(0) < ScoreAt(2)
    /\ ScoreAt(2) < 25
    /\ top_k_indices = <<1, 2>>
    /\ retrieved_ids[1] # retrieved_ids[2]

\* C10 as stated: candidates of equal score are listed in their original
\* candidate order, the lower index first.
C10_TiesInIndexOrder ==
    Retrieved =>
        \A i, j \in 1..Len(top_k_indices) :
            i < j /\ ScoreAt(top_k_indices[i]) = ScoreAt(top_k_indices[j])
                => top_k_indices[i] < top_k_indices[j]

(***************************************************************************)
(* calculate_recall_at_k.  A recall is a fraction, kept as a numerator and *)
(* a denominator; the 0.0 returned for an empty relevant_ids is 0/1.       *)
(***************************************************************************)
MaxRetr == 3
MaxRel == 2

ToSet(s) == {s[i] : i \in 1..Len(s)}

\* Mutant: the hits are divided by the number of entries looked at.
recall_over_top_k(retrieved, relevant, kk) ==
    IF relevant = <<>> THEN [num |-> 0, den |-> 1]
    ELSE LET top == PySlice(retrieved, 0, kk)
             relevant_retrieved == Cardinality(ToSet(top) \cap ToSet(relevant))
         IN [num |-> relevant_retrieved, den |-> Max2(1, Len(top))]

\* Mutant: every retrieved id is looked at, not only the first kk.
recall_ignoring_k(retrieved, relevant, kk) ==
    IF relevant = <<>> THEN [num |-> 0, den |-> 1]
    ELSE [num |-> Cardinality(ToSet(retrieved) \cap ToSet(relevant)),
          den |-> Len(relevant)]

calculate_recall_at_k(retrieved, relevant, kk) ==
    IF relevant = <<>> THEN [num |-> 0, den |-> 1]
    ELSE LET top == PySlice(retrieved, 0, kk)
             relevant_retrieved == Cardinality(ToSet(top) \cap ToSet(relevant))
         IN [num |-> relevant_retrieved, den |-> Len(relevant)]

\* The argument lists of calculate_recall_at_k: ids retrieved in rank order,
\* the scenario [a, b, c] among them, and relevant ids, repeated ids included.
RetrievedLists == SeqsUpTo({"a", "c", "z"}, MaxRetr) \cup {<<"a", "b", "c">>}
RelevantLists == SeqsUpTo({"c", "z"}, MaxRel)

\* calculate_recall_at_k is called on one pair of lists with k = 0, 1, 2, ...
InitRecall ==
    /\ ChunkIdle
    /\ EvalIdle
    /\ query_emb = <<>>
    /\ chunk_embeddings = <<>>
    /\ all_chunks = <<>>
    /\ doc_indices = <<>>
    /\ rpc = "idle"
    /\ top_k_indices = <<>>
    /\ retrieved_chunks = <<>>
    /\ retrieved_ids \in RetrievedLists
    /\ relevant_ids \in RelevantLists
    /\ k = 0
    /\ recalls = <<>>
    /\ all_metrics = <<>>
    /\ aggregated = <<>>
    /\ mpc = "ready"

RecallAtK ==
    /\ mpc = "ready"
    /\ k <= MaxK
    /\ recalls' = Append(recalls, calculate_recall_at_k(retrieved_ids, relevant_ids, k))
    /\ k' = k + 1
    /\ UNCHANGED <<query_emb, chunk_embeddings, all_chunks, doc_indices, rpc,
                   top_k_indices, retrieved_chunks, retrieved_ids,
                   relevant_ids, all_metrics, aggregated, mpc, chunkVars, evalVars>>

NextRecall == RecallAtK

SpecRecall == InitRecall /\ [][NextRecall]_vars

(***************************************************************************)
(* Properties of calculate_recall_at_k.                                    *)
(***************************************************************************)
\* The fraction r is n/d.
IsFraction(r, n, d) == r.den > 0 /\ r.num * d = n * r.den

\* The distinct relevant ids among the first kk retrieved ones.
HitsWithin(kk) ==
    {id \in ToSet(relevant_ids) :
        \E j \in 1..Min2(kk, Len(retrieved_ids)) : retrieved_ids[j] = id}

RecallIsHitsOverRelevant ==
    \A i \in 1..Len(recalls) :
        IF relevant_ids = <<>> THEN IsFraction(recalls[i], 0, 1)
        ELSE IsFraction(recalls[i], Cardinality(HitsWithin(i - 1)), Len(relevant_ids))

Scenario11 == retrieved_ids = <<"a", "b", "c">> /\ relevant_ids = <<"c", "z">>

\* C11 as stated: the recall is the number of distinct relevant ids among the
\* first k retrieved, over the number of relevant ids, 0 when there is none,
\* and k = 2 with retrieved [a, b, c] and relevant [c, z] gives 0.5.
C11_Original ==
    /\ RecallIsHitsOverRelevant
    /\ Scenario11 /\ Len(recalls) >= 3 => IsFraction(recalls[3], 1, 2)

\* C11: the recall is the number of distinct relevant ids among the first k
\* retrieved, over the length of relevant_ids, 0 when relevant_ids is empty;
\* with retrieved [a, b, c] and relevant [c, z], k = 2 gives 0 and k = 3
\* gives 0.5.
C11_RecallAtK ==
    /\ RecallIsHitsOverRelevant
    /\ Scenario11 /\ Len(recalls) >= 3 => IsFraction(recalls[3], 0, 1)
    /\ Scenario11 /\ Len(recalls) >= 4 => IsFraction(recalls[4], 1, 2)

\* C11 witness: the recalls of the scenario have been computed up to k = 3.
C11_Witness == Scenario11 /\ Len(recalls) >= 4

\* C12: for 1 <= k1 <= k2 the recall at k1 is at most the recall at k2, and
\* every recall is between 0 and 1.
C12_RecallMonotone ==
    /\ \A i \in 1..Len(recalls) :
          /\ recalls[i].den > 0
          /\ 0 <= recalls[i].num
          /\ recalls[i].num <= recalls[i].den
    /\ \A i, j \in 2..Len(recalls) :
          i <= j => recalls[i].num * recalls[j].den <= recalls[j].num * recalls[i].den

\* C12 witness: over k = 1, 2, 3 the recall has risen from 0 through 1/2 to 1.
C12_Witness ==
    /\ Len(recalls) >= 4
    /\ IsFraction(recalls[2], 0, 1)
    /\ IsFraction(recalls[3], 1, 2)
    /\ IsFraction(recalls[4], 1, 1)

(***************************************************************************)
(* aggregate_metrics.  A per-query dict is a function from metric names to *)
(* values; the values are integers, a mean and a median are exact          *)
(* fractions, and the standard deviation (np.std, of the population) is    *)
(* kept as its square, the variance.                                       *)
(***************************************************************************)
MaxQueries == 3

MetricNames == {"x", "y"}
MetricValues == {1, 3}

\* The per-query dicts: any subset of the metric names, each with a value.
MetricDicts == UNION {[names -> MetricValues] : names \in SUBSET MetricNames}

RECURSIVE Sum(_)
Sum(values) == IF values = <<>> THEN 0 ELSE Head(values) + Sum(Tail(values))

\* The values in ascending order.
RECURSIVE Sorted(_)
Sorted(values) ==
    IF values = <<>> THEN <<>>
    ELSE LET least == SetMin(ToSet(values))
             at == CHOOSE i \in 1..Len(values) : values[i] = least
         IN <<least>> \o Sorted(PySlice(values, 0, at - 1) \o PySliceFrom(values, at))

\* np.mean
mean(values) == [num |-> Sum(values), den |-> Len(values)]

\* np.median: the middle value, or the mean of the two middle values.
median(values) ==
    LET sorted == Sorted(values)
        n == Len(values)
    IN IF n % 2 = 1 THEN [num |-> sorted[(n + 1) \div 2], den |-> 1]
       ELSE [num |-> sorted[n \div 2] + sorted[n \div 2 + 1], den |-> 2]

\* The square of np.std: the mean of the squares less the square of the mean.
variance(values) ==
    LET n == Len(values)
        squares == [i \in 1..n |-> values[i] * values[i]]
    IN [num |-> n * Sum(squares) - Sum(values) * Sum(values), den |-> n * n]

\* The statistics of one metric.
stats(values) ==
    [mean |-> mean(values), median |-> median(values), std2 |-> variance(values),
     min |-> SetMin(ToSet(values)), max |-> SetMax(ToSet(values))]

\* [m[metric_name] for m in all_metrics if metric_name in m]
RECURSIVE values_of(_, _)
values_of(ms, metric_name) ==
    IF ms = <<>> THEN <<>>
    ELSE (IF metric_name \in DOMAIN Head(ms) THEN <<Head(ms)[metric_name]>> ELSE <<>>)
         \o values_of(Tail(ms), metric_name)

\* The metric names are the keys of the first dict.
aggregate_metrics(ms) ==
    IF ms = <<>> THEN <<>>
    ELSE LET metric_names == DOMAIN ms[1]
         IN [metric_name \in {name \in metric_names : values_of(ms, name) # <<>>} |->
                stats(values_of(ms, metric_name))]

InitAggregate ==
    /\ ChunkIdle
    /\ RetrIdle
    /\ EvalIdle
    /\ relevant_ids = <<>>
    /\ recalls = <<>>
    /\ all_metrics \in SeqsUpTo(MetricDicts, MaxQueries)
    /\ aggregated = <<>>
    /\ mpc = "ready"

Aggregate ==
    /\ mpc = "ready"
    /\ aggregated' = aggregate_metrics(all_metrics)
    /\ mpc' = "aggregated"
    /\ UNCHANGED <<relevant_ids, recalls, all_metrics, chunkVars, retrVars, evalVars>>

NextAggregate == Aggregate

SpecAggregate == InitAggregate /\ [][NextAggregate]_vars

(***************************************************************************)
(* Properties of aggregate_metrics.                                        *)
(***************************************************************************)
Aggregated == mpc = "aggregated"

\* The metric names present in at least one per-query dict.
NamesPresent == UNION {DOMAIN all_metrics[i] : i \in 1..Len(all_metrics)}

\* C13 as stated: the result has an entry for every metric name present in at
\* least one per-query dict, whichever query it first appears in, with the
\* statistics of the values of exactly the queries that have the name; for an
\* empty input the result is the empty mapping.
C13_EveryMetricNameAggregated ==
    Aggregated =>
        /\ DOMAIN aggregated = NamesPresent
        /\ \A name \in DOMAIN aggregated :
              aggregated[name] = stats(values_of(all_metrics, name))
        /\ all_metrics = <<>> => aggregated = <<>>

\* The per-query dicts in the order p.
Permuted(ms, p) == [i \in 1..Len(ms) |-> ms[p[i]]]
Orders(n) == {p \in [1..n -> 1..n] : \A i, j \in 1..n : p[i] = p[j] => i = j}

\* C14 as stated: the per-query dicts in any other order, of uniform metric
\* names or not, aggregate to the same result.
C14_OrderInvariant ==
    Aggregated =>
        \A p \in Orders(Len(all_metrics)) :
            aggregate_metrics(Permuted(all_metrics, p)) = aggregated

\* The documented example: [{"x": 1.0}, {"x": 3.0}] has mean 2, median 2, std 1,
\* min 1 and max 3.
AggregateExample ==
    Aggregated /\ all_metrics = <<[n \in {"x"} |-> 1], [n \in {"x"} |-> 3]>> =>
        /\ DOMAIN aggregated = {"x"}
        /\ IsFraction(aggregated["x"].mean, 2, 1)
        /\ IsFraction(aggregated["x"].median, 2, 1)
        /\ IsFraction(aggregated["x"].std2, 1, 1)
        /\ aggregated["x"].min = 1
        /\ aggregated["x"].max = 3

(***************************************************************************)
(* Properties of the recursive strategy on a text without separators.      *)
(***************************************************************************)
\* The text has no whitespace, hence none of the separators but the empty one.
NoSeparator(t) == \A i \in 1..Len(t) : t[i] \notin Whitespace

\* C20: on a text with none of the separators "\n\n", "\n", ". ", " " and no
\* other whitespace, recursive chunking with chunk_size >= 1 and
\* chunk_overlap = 0 returns exactly ceil(len(text) / chunk_size) chunks, the
\* i-th being the i-th consecutive slice of chunk_size characters.
C20_CharacterLevelSlices ==
    Returned /\ strategy = "recursive" /\ chunk_size >= 1 /\ chunk_overlap = 0
             /\ NoSeparator(text) =>
        /\ Len(chunks) = (Len(text) + chunk_size - 1) \div chunk_size
        /\ \A i \in 1..Len(chunks) :
              chunks[i] = PySlice(text, (i - 1) * chunk_size, i * chunk_size)

\* C20 witness: "abcdefghij" has been split by size 4 into "abcd", "efgh" and
\* the shorter "ij".
C20_Witness ==
    /\ Returned
    /\ strategy = "recursive"
    /\ chunk_size = 4
    /\ chunk_overlap = 0
    /\ text = TextAbcdefghij
    /\ chunks = <<Abcd, Efgh, Ij>>

(***************************************************************************)
(* The evaluator: papers, the object store, the embedder and the language  *)
(* model as run_experiment and run_rag_experiment see them.                 *)
(***************************************************************************)
MinChunkLen == 50

Rep(c, n) == [i \in 1..n |-> c]

\* paper['abstract'], which is also the query and the reference of the paper.
Abstract(id) == IF id = "p1" THEN <<"a">> ELSE <<"b">>

\* The texts of the stored PDFs: one of 49 characters, whose chunks are all
\* below 50 characters, and a longer one.  Each is two words.
ShortText(id) ==
    IF id = "p1" THEN Rep("a", 24) \o SPACE \o Rep("a", 24)
    ELSE Rep("b", 24) \o SPACE \o Rep("b", 24)
LongText(id) ==
    IF id = "p1" THEN Rep("a", 50) \o SPACE \o Rep("b", 50)
    ELSE Rep("b", 55) \o SPACE \o Rep("b", 5)

\* A text of p2 that starts like the text of p1.
CommonText == Rep("a", 50) \o SPACE \o Rep("a", 5)

\* What the store holds under the key of a paper: nothing, an object of no
\* bytes, bytes that are no PDF, a PDF without text, or a PDF with text.
Documents(id) ==
    {[kind |-> "absent", text |-> <<>>], [kind |-> "empty", text |-> <<>>],
     [kind |-> "corrupt", text |-> <<>>], [kind |-> "pdf", text |-> <<>>],
     [kind |-> "pdf", text |-> ShortText(id)], [kind |-> "pdf", text |-> LongText(id)]}
    \cup (IF id = "p2" THEN {[kind |-> "pdf", text |-> CommonText]} ELSE {})

\* The lists of distinct ids out of a set.
ListsOf(ids) ==
    {l \in SeqsUpTo(ids, Cardinality(ids)) : \A i, j \in 1..Len(l) : l[i] = l[j] => i = j}

\* generate_queries: one query per paper, the abstract as query and reference.
QueryOf(id) == [query |-> Abstract(id), reference |-> Abstract(id), paper_id |-> id]

\* The strategy, chunk_size and chunk_overlap an experiment is called with:
\* those of main, sizes and overlaps a tenth of main's.
strategies ==
    <<[name |-> "Fixed-500", strategy |-> "fixed", chunk_size |-> 50, overlap |-> 5],
      [name |-> "Recursive-500", strategy |-> "recursive", chunk_size |-> 50, overlap |-> 5],
      [name |-> "Token-256", strategy |-> "token", chunk_size |-> 26, overlap |-> 3],
      [name |-> "Sentence-500", strategy |-> "sentence", chunk_size |-> 50, overlap |-> 10],
      [name |-> "Paragraph-Overlap", strategy |-> "paragraph", chunk_size |-> 0, overlap |-> 10]>>

\* self.storage.get_paper_pdf raises when the key is missing.
get_paper_pdf_raises(id) == storage[id].kind = "absent"

\* if not pdf_bytes: continue
no_pdf_bytes(id) == storage[id].kind = "empty"

\* Chunker.extract_text_from_pdf: "" when the bytes cannot be read.
extract_text_from_pdf(doc) == IF doc.kind = "pdf" THEN doc.text ELSE <<>>

\* Chunker.chunk_text for the known strategies.
chunk_text(strat, size, overlap, tok, t) ==
    IF t = <<>> THEN <<>>
    ELSE CASE strat = "fixed" -> fixed_size_chunking(t, size, overlap)
           [] strat = "recursive" -> recursive_chunking(t, size, overlap)
           [] strat = "paragraph" -> paragraph_chunking(t, overlap)
           [] strat = "token" -> token_based_chunking(t, size, overlap, tok)
           [] strat = "sentence" -> sentence_based_chunking(t, size, overlap)

\* Mutant: no chunk is skipped for its length.
keep_for_retrieval_all(chunk) == TRUE

\* if len(chunk) < 50: continue
keep_for_retrieval(chunk) == ~(Len(chunk) < MinChunkLen)

\* The chunks of one paper that are appended to all_chunks.
RECURSIVE kept_chunks(_)
kept_chunks(cs) ==
    IF cs = <<>> THEN <<>>
    ELSE (IF keep_for_retrieval(Head(cs)) THEN <<Head(cs)>> ELSE <<>>)
         \o kept_chunks(Tail(cs))

\* The embedder on a text: its direction is given by the first character.
direction(t) ==
    IF t = <<>> THEN "north"
    ELSE CASE Head(t) = "a" -> "east"
           [] Head(t) = "b" -> "ne"
           [] OTHER -> "se"

\* self.embedder.embed_texts on chunks, abstracts and queries.
embed_passages(texts) == embed_texts([i \in 1..Len(texts) |-> direction(texts[i])])

\* rouge_scorer / sacrebleu on a prediction that is the reference or is empty:
\* full overlap or none.
text_overlap(prediction, reference) ==
    IF prediction # <<>> /\ prediction = reference THEN 1 ELSE 0

MetricsOfQuery == {"rouge1", "rouge2", "rougeL", "bleu", "recall@k"}

\* MetricsCalculator.calculate_all_metrics
calculate_all_metrics(prediction, reference, retrieved, relevant, kk) ==
    LET recall == calculate_recall_at_k(retrieved, relevant, kk)
    IN [name \in MetricsOfQuery |->
          CASE name = "bleu" -> 100 * text_overlap(prediction, reference)
            [] name = "recall@k" -> recall.num \div recall.den
            [] OTHER -> text_overlap(prediction, reference)]

(***************************************************************************)
(* run_rag_experiment and run_experiment as state machines.  epc is the    *)
(* phase: "Start", "Chunking", "Embedding", "PerQueryEvaluation" or        *)
(* "Retrieval", "Aggregating", then "Done" (the result is returned),       *)
(* "NoChunks" (run_rag_experiment returned its error dict) or "Failed" (an *)
(* exception left the function).                                           *)
(***************************************************************************)
TopK == 5
BasicK == 5
SixtiethsOfOne == 60

evalInputs == <<papers, storage, test_queries, llm_client>>
mainVars == <<strat_i, fallback, results, main_pc>>
chunkerCall == <<pc, text, chunks, groups, loop_start>>
chunkerFields == <<strategy, chunk_size, chunk_overlap, tokenizer>>
queryLocals == <<query_emb, top_k_indices, retrieved_chunks, retrieved_ids>>
unusedByEval == <<rpc, relevant_ids, recalls, all_metrics, mpc>>

\* An exception leaves the function.
Raise(e) ==
    /\ epc' = "Failed"
    /\ error' = e

\* if self.llm_client is None: raise ValueError(...)
RagEnter ==
    /\ running = "run_rag_experiment"
    /\ epc = "Start"
    /\ IF llm_client = "none"
       THEN Raise("ValueError") /\ UNCHANGED paper_i
       ELSE epc' = "Chunking" /\ paper_i' = 1 /\ UNCHANGED error
    /\ UNCHANGED <<chunkVars, retrVars, metVars, evalInputs, mainVars, query_i,
                   all_query_metrics, experiment_result, running, responses, hits,
                   reciprocal_ranks>>

BasicEnter ==
    /\ running = "run_experiment"
    /\ epc = "Start"
    /\ epc' = "Chunking"
    /\ paper_i' = 1
    /\ UNCHANGED <<chunkVars, retrVars, metVars, evalInputs, mainVars, query_i,
                   all_query_metrics, experiment_result, running, responses, hits,
                   reciprocal_ranks, error>>

\* One turn of "for paper in papers" in _prepare_chunks and in run_experiment.
ChunkPaper ==
    /\ epc = "Chunking"
    /\ paper_i <= Len(papers)
    /\ LET id == papers[paper_i]
           chunks_of_paper ==
               kept_chunks(chunk_text(strategy, chunk_size, chunk_overlap, tokenizer,
                                      extract_text_from_pdf(storage[id])))
       IN IF get_paper_pdf_raises(id)
          THEN Raise("StorageError") /\ UNCHANGED <<paper_i, all_chunks, doc_indices>>
          ELSE /\ paper_i' = paper_i + 1
               /\ UNCHANGED <<epc, error>>
               /\ IF no_pdf_bytes(id)
                  THEN UNCHANGED <<all_chunks, doc_indices>>
                  ELSE /\ all_chunks' = all_chunks \o chunks_of_paper
                       /\ doc_indices' =
                              doc_indices \o [i \in 1..Len(chunks_of_paper) |-> id]
    /\ UNCHANGED <<chunkVars, queryLocals, chunk_embeddings, k, aggregated, unusedByEval,
                   evalInputs, mainVars, query_i, all_query_metrics, experiment_result,
                   running, responses, hits, reciprocal_ranks>>

\* Mutant: the chunks are embedded although papers remain to be chunked.
RagChunkedEarly ==
    /\ running = "run_rag_experiment"
    /\ epc = "Chunking"
    /\ paper_i >= Len(papers)
    /\ epc' = "Embedding"
    /\ UNCHANGED <<chunkVars, retrVars, metVars, evalInputs, mainVars, paper_i, query_i,
                   all_query_metrics, experiment_result, running, responses, hits,
                   reciprocal_ranks, error>>

\* _prepare_chunks: the loop over the papers has ended.
RagChunked ==
    /\ running = "run_rag_experiment"
    /\ epc = "Chunking"
    /\ paper_i > Len(papers)
    /\ epc' = "Embedding"
    /\ UNCHANGED <<chunkVars, retrVars, metVars, evalInputs, mainVars, paper_i, query_i,
                   all_query_metrics, experiment_result, running, responses, hits,
                   reciprocal_ranks, error>>

\* chunk_embeddings = self.embedder.embed_texts(all_chunks), then
\* if not all_chunks: return {"error": "No chunks generated", "num_chunks": 0}
RagEmbed ==
    /\ running = "run_rag_experiment"
    /\ epc = "Embedding"
    /\ \E embedded \in BOOLEAN :
          IF ~embedded
          THEN Raise("EmbeddingFailure")
               /\ UNCHANGED <<chunk_embeddings, experiment_result, query_i>>
          ELSE /\ chunk_embeddings' = embed_passages(all_chunks)
               /\ UNCHANGED error
               /\ IF all_chunks = <<>>
                  THEN /\ epc' = "NoChunks"
                       /\ experiment_result' =
                              [error |-> "No chunks generated", num_chunks |-> 0]
                       /\ UNCHANGED query_i
                  ELSE /\ epc' = "PerQueryEvaluation"
                       /\ query_i' = 1
                       /\ UNCHANGED experiment_result
    /\ UNCHANGED <<chunkVars, queryLocals, all_chunks, doc_indices, k, aggregated,
                   unusedByEval, evalInputs, mainVars, paper_i, all_query_metrics,
                   running, responses, hits, reciprocal_ranks>>

\* How a call of llm_client.generate_rag_response can end: with a text, with
\* the "" that generate_with_chat returns after an error, or with an exception.
GenerationOutcomes == {"text", "empty", "raises"}

\* generated_response after the try / except of _evaluate_single_query; a
\* generated text is taken to be the reference.
generated_response(outcome, reference) == IF outcome = "text" THEN reference ELSE <<>>

\* Mutant: a query whose generation raised gets no record.
record_of_query_dropped(metrics, outcome) == IF outcome = "raises" THEN <<>> ELSE <<metrics>>

\* all_query_metrics.append(query_metrics)
record_of_query(metrics, outcome) == <<metrics>>

\* Mutant: the retrieval keeps the retrieved chunks in the place of all_chunks.
EvaluateQueryInPlace ==
    /\ running = "run_rag_experiment"
    /\ epc = "PerQueryEvaluation"
    /\ query_i <= Len(test_queries)
    /\ \E embedded \in BOOLEAN :
          IF ~embedded
          THEN Raise("EmbeddingFailure")
               /\ UNCHANGED <<queryLocals, query_i, all_query_metrics, responses, all_chunks>>
          ELSE LET query_dict == test_queries[query_i]
                   qe == embed_passages(<<query_dict.query>>)
               IN \E order \in argsort(cosine_similarity(qe, chunk_embeddings)),
                     outcome \in GenerationOutcomes :
                     LET top == top_k(order, k)
                         ids == [i \in 1..Len(top) |-> doc_indices[top[i] + 1]]
                         prediction == generated_response(outcome, query_dict.reference)
                         metrics == calculate_all_metrics(prediction, query_dict.reference,
                                                          ids, <<query_dict.paper_id>>, k)
                     IN /\ query_emb' = qe
                        /\ top_k_indices' = top
                        /\ retrieved_chunks' = [i \in 1..Len(top) |-> all_chunks[top[i] + 1]]
                        /\ retrieved_ids' = ids
                        /\ all_query_metrics' =
                               all_query_metrics \o record_of_query(metrics, outcome)
                        /\ responses' = Append(responses, [outcome |-> outcome,
                                                           text |-> prediction,
                                                           retrieved_ids |-> ids])
                        /\ query_i' = query_i + 1
                        /\ all_chunks' = [i \in 1..Len(top) |-> all_chunks[top[i] + 1]]
                        /\ UNCHANGED <<epc, error>>
    /\ UNCHANGED <<chunkVars, chunk_embeddings, doc_indices, k, aggregated,
                   unusedByEval, evalInputs, mainVars, paper_i, experiment_result,
                   running, hits, reciprocal_ranks>>

\* One turn of "for i, query_dict in enumerate(test_queries)":
\* _evaluate_single_query and the append.
EvaluateQuery ==
    /\ running = "run_rag_experiment"
    /\ epc = "PerQueryEvaluation"
    /\ query_i <= Len(test_queries)
    /\ \E embedded \in BOOLEAN :
          IF ~embedded
          THEN Raise("EmbeddingFailure")
               /\ UNCHANGED <<queryLocals, query_i, all_query_metrics, responses>>
          ELSE LET query_dict == test_queries[query_i]
                   qe == embed_passages(<<query_dict.query>>)
               IN \E order \in argsort(cosine_similarity(qe, chunk_embeddings)),
                     outcome \in GenerationOutcomes :
                     LET top == top_k(order, k)
                         ids == [i \in 1..Len(top) |-> doc_indices[top[i] + 1]]
                         prediction == generated_response(outcome, query_dict.reference)
                         metrics == calculate_all_metrics(prediction, query_dict.reference,
                                                          ids, <<query_dict.paper_id>>, k)
                     IN /\ query_emb' = qe
                        /\ top_k_indices' = top
                        /\ retrieved_chunks' = [i \in 1..Len(top) |-> all_chunks[top[i] + 1]]
                        /\ retrieved_ids' = ids
                        /\ all_query_metrics' =
                               all_query_metrics \o record_of_query(metrics, outcome)
                        /\ responses' = Append(responses, [outcome |-> outcome,
                                                           text |-> prediction,
                                                           retrieved_ids |-> ids])
                        /\ query_i' = query_i + 1
                        /\ UNCHANGED <<epc, error>>
    /\ UNCHANGED <<chunkVars, chunk_embeddings, all_chunks, doc_indices, k, aggregated,
                   unusedByEval, evalInputs, mainVars, paper_i, experiment_result,
                   running, hits, reciprocal_ranks>>

\* The loop over test_queries has ended.
RagQueriesDone ==
    /\ running = "run_rag_experiment"
    /\ epc = "PerQueryEvaluation"
    /\ query_i > Len(test_queries)
    /\ epc' = "Aggregating"
    /\ UNCHANGED <<chunkVars, retrVars, metVars, evalInputs, mainVars, paper_i, query_i,
                   all_query_metrics, experiment_result, running, responses, hits,
                   reciprocal_ranks, error>>

\* aggregated = aggregate_metrics(all_query_metrics); result = {...}; return
RagAggregate ==
    /\ running = "run_rag_experiment"
    /\ epc = "Aggregating"
    /\ aggregated' = aggregate_metrics(all_query_metrics)
    /\ experiment_result' =
           [strategy |-> strategy, chunk_size |-> chunk_size,
            chunk_overlap |-> chunk_overlap, num_chunks |-> Len(all_chunks),
            num_queries |-> Len(test_queries),
            metrics |-> aggregate_metrics(all_query_metrics),
            per_query_metrics |-> all_query_metrics]
    /\ epc' = "Done"
    /\ UNCHANGED <<chunkVars, queryLocals, chunk_embeddings, all_chunks, doc_indices, k,
                   unusedByEval, evalInputs, mainVars, paper_i, query_i,
                   all_query_metrics, running, responses, hits, reciprocal_ranks, error>>

\* run_experiment: the loop over the papers has ended;
\* if not all_chunks: return {"hit_rate": 0, "mrr": 0, "num_chunks": 0}
BasicChunked ==
    /\ running = "run_experiment"
    /\ epc = "Chunking"
    /\ paper_i > Len(papers)
    /\ IF all_chunks = <<>>
       THEN /\ epc' = "Done"
            /\ experiment_result' = [hit_rate |-> [num |-> 0, den |-> 1],
                                     mrr |-> [num |-> 0, den |-> 1], num_chunks |-> 0]
       ELSE /\ epc' = "Embedding"
            /\ UNCHANGED experiment_result
    /\ UNCHANGED <<chunkVars, retrVars, metVars, evalInputs, mainVars, paper_i, query_i,
                   all_query_metrics, running, responses, hits, reciprocal_ranks, error>>

\* chunk_embeddings = self.embedder.embed_texts(all_chunks); hits = 0; ...
BasicEmbed ==
    /\ running = "run_experiment"
    /\ epc = "Embedding"
    /\ \E embedded \in BOOLEAN :
          IF ~embedded
          THEN Raise("EmbeddingFailure")
               /\ UNCHANGED <<chunk_embeddings, query_i, hits, reciprocal_ranks>>
          ELSE /\ chunk_embeddings' = embed_passages(all_chunks)
               /\ epc' = "Retrieval"
               /\ query_i' = 1
               /\ hits' = 0
               /\ reciprocal_ranks' = 0
               /\ UNCHANGED error
    /\ UNCHANGED <<chunkVars, queryLocals, all_chunks, doc_indices, k, aggregated,
                   unusedByEval, evalInputs, mainVars, paper_i, all_query_metrics,
                   experiment_result, running, responses>>

\* Mutant: every retrieved chunk counts as a chunk of the target paper.
hit_ranks_any(top, target) == {r \in 1..Len(top) : TRUE}

\* The ranks, from 1, at which the top-k list has a chunk of the target paper.
hit_ranks(top, target) == {r \in 1..Len(top) : doc_indices[top[r] + 1] = target}

\* One turn of the second "for paper in papers" of run_experiment: the
\* abstract is the query, the first chunk of the paper among the top k counts.
BasicEvaluatePaper ==
    /\ running = "run_experiment"
    /\ epc = "Retrieval"
    /\ query_i <= Len(papers)
    /\ \E embedded \in BOOLEAN :
          IF ~embedded
          THEN Raise("EmbeddingFailure")
               /\ UNCHANGED <<query_emb, top_k_indices, query_i, hits, reciprocal_ranks>>
          ELSE LET target_id == papers[query_i]
                   qe == embed_passages(<<Abstract(target_id)>>)
               IN \E order \in argsort(cosine_similarity(qe, chunk_embeddings)) :
                     LET top == top_k(order, BasicK)
                         ranks == hit_ranks(top, target_id)
                     IN /\ query_emb' = qe
                        /\ top_k_indices' = top
                        /\ hits' = IF ranks = {} THEN hits ELSE hits + 1
                        /\ reciprocal_ranks' =
                               IF ranks = {} THEN reciprocal_ranks
                               ELSE reciprocal_ranks + SixtiethsOfOne \div SetMin(ranks)
                        /\ query_i' = query_i + 1
                        /\ UNCHANGED <<epc, error>>
    /\ UNCHANGED <<chunkVars, retrieved_chunks, retrieved_ids, chunk_embeddings, all_chunks,
                   doc_indices, k, aggregated, unusedByEval, evalInputs, mainVars, paper_i,
                   all_query_metrics, experiment_result, running, responses>>

\* num_queries = len(papers); metrics = {...}; return metrics
BasicFinish ==
    /\ running = "run_experiment"
    /\ epc = "Retrieval"
    /\ query_i > Len(papers)
    /\ experiment_result' =
           [hit_rate |-> [num |-> hits, den |-> Len(papers)],
            mrr |-> [num |-> reciprocal_ranks, den |-> SixtiethsOfOne * Len(papers)],
            num_chunks |-> Len(all_chunks)]
    /\ epc' = "Done"
    /\ UNCHANGED <<chunkVars, retrVars, metVars, evalInputs, mainVars, paper_i, query_i,
                   all_query_metrics, running, responses, hits, reciprocal_ranks, error>>

\* The papers argument and what the store holds for each paper.
PapersAndStore ==
    /\ papers \in ListsOf(PaperIds)
    /\ storage \in {st \in [ToSet(papers) -> UNION {Documents(id) : id \in PaperIds}] :
                       \A id \in ToSet(papers) : st[id] \in Documents(id)}

\* The arguments of run_rag_experiment: papers, queries about some of them in
\* some order, and top_k; the evaluator may have no language model.
RagArguments ==
    /\ running = "run_rag_experiment"
    /\ PapersAndStore
    /\ test_queries \in {[i \in 1..Len(l) |-> QueryOf(l[i])] : l \in ListsOf(ToSet(papers))}
    /\ llm_client \in {"vllm", "none"}
    /\ k \in {1, TopK}

\* The arguments of run_experiment: papers only.
BasicArguments ==
    /\ running = "run_experiment"
    /\ PapersAndStore
    /\ test_queries = <<>>
    /\ llm_client = "none"
    /\ k = 0

\* Chunker.__init__ with the arguments of the experiment.
ChunkerOf(config) ==
    /\ strategy = config.strategy
    /\ chunk_size = config.chunk_size
    /\ chunk_overlap = config.overlap
    /\ tokenizer = IF config.strategy = "token" THEN "tiktoken" ELSE "unset"

\* Nothing of an experiment has run yet.
ExperimentFresh ==
    /\ pc = "idle"
    /\ text = <<>>
    /\ chunks = <<>>
    /\ groups = <<>>
    /\ loop_start = 0
    /\ query_emb = <<>>
    /\ chunk_embeddings = <<>>
    /\ all_chunks = <<>>
    /\ doc_indices = <<>>
    /\ rpc = "idle"
    /\ top_k_indices = <<>>
    /\ retrieved_chunks = <<>>
    /\ retrieved_ids = <<>>
    /\ MetIdle
    /\ epc = "Start"
    /\ paper_i = 0
    /\ query_i = 0
    /\ all_query_metrics = <<>>
    /\ experiment_result = <<>>
    /\ error = "none"
    /\ responses = <<>>
    /\ hits = 0
    /\ reciprocal_ranks = 0

\* run_rag_experiment or run_experiment is called.
InitExperiment ==
    /\ RagArguments \/ BasicArguments
    /\ \E i \in 1..Len(strategies) : ChunkerOf(strategies[i])
    /\ ExperimentFresh
    /\ strat_i = 0
    /\ fallback = FALSE
    /\ results = <<>>
    /\ main_pc = "idle"

NextExperiment ==
    \/ RagEnter
    \/ BasicEnter
    \/ ChunkPaper
    \/ RagChunked
    \/ RagEmbed
    \/ EvaluateQuery
    \/ RagQueriesDone
    \/ RagAggregate
    \/ BasicChunked
    \/ BasicEmbed
    \/ BasicEvaluatePaper
    \/ BasicFinish

SpecExperiment == InitExperiment /\ [][NextExperiment]_vars

(***************************************************************************)
(* main of experiment_runner.py: the loop over the strategies, each one    *)
(* evaluated by run_rag_experiment when there is a language model, with    *)
(* run_experiment as the fallback, and by run_experiment otherwise.        *)
(***************************************************************************)
MaxStrategies == 2

\* The strategies the loop of main goes through.
strategies_of_main == PySlice(strategies, 0, MaxStrategies)

\* The store of main holds a PDF for each paper, or nothing.
DocumentsOfMain(id) ==
    {[kind |-> "absent", text |-> <<>>],
     [kind |-> "pdf", text |-> ShortText(id)], [kind |-> "pdf", text |-> LongText(id)]}

\* main before the loop: papers is not empty, test_queries is a sample of as
\* many queries as there are papers, the language model may be missing.
InitMain ==
    /\ papers \in {<<"p1">>, <<"p1", "p2">>}
    /\ storage \in {st \in [ToSet(papers) -> UNION {DocumentsOfMain(id) : id \in PaperIds}] :
                       \A id \in ToSet(papers) : st[id] \in DocumentsOfMain(id)}
    /\ test_queries \in {[i \in 1..Len(l) |-> QueryOf(l[i])] :
                            l \in {o \in ListsOf(ToSet(papers)) : Len(o) = Len(papers)}}
    /\ llm_client \in {"vllm", "none"}
    /\ k = TopK
    /\ ChunkIdle
    /\ query_emb = <<>>
    /\ chunk_embeddings = <<>>
    /\ all_chunks = <<>>
    /\ doc_indices = <<>>
    /\ rpc = "idle"
    /\ top_k_indices = <<>>
    /\ retrieved_chunks = <<>>
    /\ retrieved_ids = <<>>
    /\ MetIdle
    /\ epc = "idle"
    /\ paper_i = 0
    /\ query_i = 0
    /\ all_query_metrics = <<>>
    /\ experiment_result = <<>>
    /\ error = "none"
    /\ responses = <<>>
    /\ hits = 0
    /\ reciprocal_ranks = 0
    /\ running = "none"
    /\ strat_i = 1
    /\ fallback = FALSE
    /\ results = <<>>
    /\ main_pc = "loop"

\* The locals of an experiment when fn is entered, or after it has returned.
Locals(fn, phase) ==
    /\ running' = fn
    /\ epc' = phase
    /\ paper_i' = 0
    /\ query_i' = 0
    /\ all_query_metrics' = <<>>
    /\ experiment_result' = <<>>
    /\ error' = "none"
    /\ responses' = <<>>
    /\ hits' = 0
    /\ reciprocal_ranks' = 0
    /\ all_chunks' = <<>>
    /\ doc_indices' = <<>>
    /\ chunk_embeddings' = <<>>
    /\ query_emb' = <<>>
    /\ top_k_indices' = <<>>
    /\ retrieved_chunks' = <<>>
    /\ retrieved_ids' = <<>>
    /\ aggregated' = <<>>

\* for i, strat in enumerate(strategies): run_rag_experiment is called if
\* llm_client is not None, run_experiment otherwise.
MainCall ==
    /\ main_pc = "loop"
    /\ running = "none"
    /\ strat_i <= Len(strategies_of_main)
    /\ LET strat == strategies_of_main[strat_i]
       IN /\ strategy' = strat.strategy
          /\ chunk_size' = strat.chunk_size
          /\ chunk_overlap' = strat.overlap
          /\ tokenizer' = IF strat.strategy = "token" THEN "tiktoken" ELSE "unset"
    /\ Locals(IF llm_client # "none" THEN "run_rag_experiment" ELSE "run_experiment", "Start")
    /\ fallback' = FALSE
    /\ UNCHANGED <<chunkerCall, k, unusedByEval, evalInputs, strat_i, results, main_pc>>

\* The record main appends for the experiment that returned.
result_record(strat) ==
    IF running = "run_rag_experiment"
    THEN ("name" :> strat.name) @@ experiment_result
    ELSE experiment_result @@ strat

\* results.append(...), in the try, in the except and in the else branch.
MainCollect ==
    /\ main_pc = "loop"
    /\ running # "none"
    /\ epc \in {"Done", "NoChunks"}
    /\ results' = Append(results, result_record(strategies_of_main[strat_i]))
    /\ strat_i' = strat_i + 1
    /\ Locals("none", "idle")
    /\ fallback' = FALSE
    /\ UNCHANGED <<chunkVars, k, unusedByEval, evalInputs, main_pc>>

\* except Exception as e: run_experiment is called in the handler.
MainCatch ==
    /\ main_pc = "loop"
    /\ running = "run_rag_experiment"
    /\ epc = "Failed"
    /\ Locals("run_experiment", "Start")
    /\ fallback' = TRUE
    /\ UNCHANGED <<chunkVars, k, unusedByEval, evalInputs, strat_i, results, main_pc>>

\* An exception of run_experiment is caught nowhere: it leaves main.
MainAbort ==
    /\ main_pc = "loop"
    /\ running = "run_experiment"
    /\ epc = "Failed"
    /\ main_pc' = "aborted"
    /\ UNCHANGED <<chunkVars, retrVars, metVars, evalInputs, epc, paper_i, query_i,
                   all_query_metrics, experiment_result, error, strat_i, fallback, results,
                   running, responses, hits, reciprocal_ranks>>

\* The loop has ended: "Phase 7: Generating Reports".
MainReport ==
    /\ main_pc = "loop"
    /\ running = "none"
    /\ strat_i > Len(strategies_of_main)
    /\ main_pc' = "report"
    /\ UNCHANGED <<chunkVars, retrVars, metVars, evalInputs, epc, paper_i, query_i,
                   all_query_metrics, experiment_result, error, strat_i, fallback, results,
                   running, responses, hits, reciprocal_ranks>>

NextMain ==
    \/ MainCall
    \/ MainCollect
    \/ MainCatch
    \/ MainAbort
    \/ MainReport
    \/ RagEnter
    \/ BasicEnter
    \/ ChunkPaper
    \/ RagChunked
    \/ RagEmbed
    \/ EvaluateQuery
    \/ RagQueriesDone
    \/ RagAggregate
    \/ BasicChunked
    \/ BasicEmbed
    \/ BasicEvaluatePaper
    \/ BasicFinish

SpecMain == InitMain /\ [][NextMain]_vars

(***************************************************************************)
(* Properties of run_rag_experiment and run_experiment.                    *)
(***************************************************************************)
Rag == running = "run_rag_experiment"

\* The record of query i is the metrics of its response.
RecordOfResponse(i) ==
    all_query_metrics[i] =
        calculate_all_metrics(responses[i].text, test_queries[i].reference,
                              responses[i].retrieved_ids, <<test_queries[i].paper_id>>, k)

\* C15: with a non-empty chunk set, per_query_metrics has exactly one record
\* per test query, in the order of the queries, and num_queries is their
\* number; a query whose generation raised or returned nothing has its record,
\* computed with the empty prediction, and the queries after it are evaluated.
C15_OneRecordPerQuery ==
    Rag /\ epc \in {"PerQueryEvaluation", "Aggregating", "Done"} =>
        /\ Len(all_query_metrics) = Len(responses)
        /\ Len(responses) = query_i - 1
        /\ \A i \in 1..Len(responses) :
              /\ RecordOfResponse(i)
              /\ responses[i].outcome \in {"raises", "empty"} => responses[i].text = <<>>
        /\ epc = "Done" =>
              /\ Len(experiment_result.per_query_metrics) = Len(test_queries)
              /\ experiment_result.per_query_metrics = all_query_metrics
              /\ experiment_result.num_queries = Len(test_queries)

\* C15 witness: a run of two queries is done; the generation of the first
\* raised, the second was answered, and both have their record.
C15_Witness ==
    /\ Rag
    /\ epc = "Done"
    /\ Len(test_queries) = 2
    /\ responses[1].outcome = "raises"
    /\ responses[2].outcome = "text"
    /\ experiment_result.per_query_metrics[1]["rouge1"] = 0
    /\ experiment_result.per_query_metrics[2]["rouge1"] = 1

\* The phase changes of a run of run_rag_experiment that returns its result.
PhaseOrder ==
    {<<"Start", "Chunking">>, <<"Chunking", "Embedding">>,
     <<"Embedding", "PerQueryEvaluation">>, <<"PerQueryEvaluation", "Aggregating">>,
     <<"Aggregating", "Done">>}

\* The ways out of such a run: an exception, or the error dict of an empty
\* chunk set.
PhaseExits ==
    {<<"Start", "Failed">>, <<"Chunking", "Failed">>, <<"Embedding", "Failed">>,
     <<"PerQueryEvaluation", "Failed">>, <<"Embedding", "NoChunks">>}

HasReturned == epc \in {"Done", "NoChunks"}

\* The dict carries metrics and they are all zero.
ZeroMetrics(r) ==
    IF Rag
    THEN /\ "metrics" \in DOMAIN r
         /\ \A name \in DOMAIN r.metrics : r.metrics[name].mean.num = 0
    ELSE /\ "hit_rate" \in DOMAIN r
         /\ r.hit_rate.num = 0
         /\ r.mrr.num = 0

\* C18 as stated: when no retrievable chunk is produced, run_rag_experiment
\* as well as run_experiment returns a result record whose metrics are all
\* zero.
C18_EmptyCorpusGivesZeroMetrics ==
    HasReturned /\ all_chunks = <<>> => ZeroMetrics(experiment_result)

\* The papers that have a PDF with text in the store.
RECURSIVE readable(_)
readable(ps) ==
    IF ps = <<>> THEN <<>>
    ELSE (IF storage[Head(ps)].kind = "pdf" /\ storage[Head(ps)].text # <<>>
          THEN <<Head(ps)>> ELSE <<>>) \o readable(Tail(ps))

\* The chunks, or the paper id of each chunk, of the papers ps in order.
RECURSIVE chunks_of_papers(_, _)
chunks_of_papers(ps, ids) ==
    IF ps = <<>> THEN <<>>
    ELSE LET own == kept_chunks(chunk_text(strategy, chunk_size, chunk_overlap, tokenizer,
                                           storage[Head(ps)].text))
         IN (IF ids THEN [i \in 1..Len(own) |-> Head(ps)] ELSE own)
            \o chunks_of_papers(Tail(ps), ids)

\* C19 as stated: a paper whose bytes are absent, whose extraction fails or
\* whose text is empty does not abort the run and adds no chunk; when the
\* chunking is over the chunks and their paper ids are those of the other
\* papers alone.
C19_UnreadablePaperSkipped ==
    /\ error # "StorageError"
    /\ epc = "Embedding" =>
          /\ all_chunks = chunks_of_papers(readable(papers), FALSE)
          /\ doc_indices = chunks_of_papers(readable(papers), TRUE)

\* Apart from the abort on a missing key C19 holds: an object of no bytes,
\* unreadable bytes and a PDF without text add no chunk.
UnreadablePaperAddsNothing ==
    epc = "Embedding" =>
        /\ all_chunks = chunks_of_papers(readable(papers), FALSE)
        /\ doc_indices = chunks_of_papers(readable(papers), TRUE)

(***************************************************************************)
(* Properties of main.                                                     *)
(***************************************************************************)
\* C17 as stated: a failure of the embedding during one strategy aborts that
\* strategy only; it does not end main before the later strategies and the
\* reports.
C17_EmbeddingFailureAbortsOneStrategy ==
    ~(main_pc = "aborted" /\ error = "EmbeddingFailure")

\* With a language model, a failure of the embedding in run_rag_experiment is
\* caught and the strategy is evaluated again by run_experiment.
EmbeddingFailureFallsBack ==
    fallback => llm_client = "vllm" /\ running = "run_experiment"

(***************************************************************************)
(* Properties of the buffers of Chunker._recursive_split                   *)
(***************************************************************************)
\* The loop states of _recursive_split: merge_states(...)[i + 1] is the state
\* after the i-th piece of the split.
RECURSIVE merge_states(_, _, _, _, _)
merge_states(st, splits, separator, size, overlap) ==
    IF splits = <<>> THEN <<st>>
    ELSE <<st>> \o merge_states(recursive_step(st, Head(splits), separator, size, overlap),
                                Tail(splits), separator, size, overlap)

Separator == pick_separator(text, separators)
Pieces == split_text(text, Separator)
MergeStates ==
    merge_states([final |-> <<>>, cur |-> <<>>, prev |-> <<>>],
                 Pieces, Separator, chunk_size, chunk_overlap)

\* The i-th piece made the loop emit a chunk.
Flushes(i) == Len(MergeStates[i + 1].final) = Len(MergeStates[i].final) + 1
Emitted(i) == MergeStates[i + 1].final[Len(MergeStates[i + 1].final)]
StartsWith(s, prefix) == Len(prefix) <= Len(s) /\ SubSeq(s, 1, Len(prefix)) = prefix

\* C21 as stated: the seed is cut from the chunk that was emitted.
C21_Original ==
    Returned /\ strategy = "recursive" /\ chunk_overlap > 0 =>
        \A i \in 1..Len(Pieces) :
            Flushes(i) =>
                StartsWith(MergeStates[i + 1].cur,
                           PySliceFrom(Emitted(i), 0 - chunk_overlap) \o Pieces[i])

\* C21: in recursive chunking with chunk_overlap > 0, each time a buffer is
\* flushed as a chunk, the next buffer is the trailing chunk_overlap characters
\* of the flushed buffer as it stood before trimming, its trailing separator
\* included (the whole buffer if it is shorter), followed by the piece that
\* triggered the flush and the separator.
C21_SeedIsTailOfFlushedBuffer ==
    Returned /\ strategy = "recursive" /\ chunk_overlap > 0 =>
        \A i \in 1..Len(Pieces) :
            Flushes(i) =>
                /\ Emitted(i) = Strip(MergeStates[i].cur)
                /\ MergeStates[i + 1].cur
                     = PySliceFrom(MergeStates[i].cur, 0 - chunk_overlap)
                         \o Pieces[i] \o Separator

\* C21 witness: "a a" with chunk_size 1 and chunk_overlap 1: the buffer "a " is
\* flushed as "a" by the second piece, and the next buffer is " a ".
C21_Witness ==
    /\ Returned
    /\ strategy = "recursive"
    /\ chunk_size = 1
    /\ chunk_overlap = 1
    /\ text = <<"a", " ", "a">>
    /\ Flushes(2)
    /\ Emitted(2) = <<"a">>
    /\ MergeStates[3].cur = <<" ", "a", " ">>
    /\ chunks = <<<<"a">>, <<"a">>>>

(***************************************************************************)
(* Chunker._sentence_based_chunking on longer texts: a sentence chunker is *)
(* constructed with a chunk_size of up to MaxSentSize and called on a text *)
(* of up to MaxSents + 1 short sentences.                                  *)
(***************************************************************************)
MaxSentSize == 7

ShortSentences == {<<"a", ".">>, <<"a", "b", ".">>}
LongSentenceTexts ==
    {Join(ss, SPACE) : ss \in SeqsUpTo(ShortSentences, MaxSents + 1)} \cup {TextABCD}

\* Chunker(strategy="sentence", chunk_size, chunk_overlap)
InitSentence ==
    /\ strategy = "sentence"
    /\ chunk_size \in 0..MaxSentSize
    /\ chunk_overlap \in Overlaps
    /\ tokenizer = "unset"
    /\ pc = "constructed"
    /\ text = <<>>
    /\ chunks = <<>>
    /\ groups = <<>>
    /\ loop_start = 0
    /\ RetrIdle /\ MetIdle /\ EvalIdle

NextSentence ==
    \E t \in LongSentenceTexts :
        \/ ChunkEmpty(t)
        \/ ChunkSentence(t)

SpecSentence == InitSentence /\ [][NextSentence]_vars

\* The sentences of a group that were appended to a non-empty buffer without a
\* flush: all but the seed and the sentence that came right after the flush
\* (in the first group, all but the first sentence).
AppendedWithoutFlush(g) == (g.seed + 2)..Len(g.sents)
JoinedLength(ss) == Len(Join(ss, SPACE))

\* C22: in sentence chunking, for every chunk_size and every chunk_overlap >= 0,
\* a sentence is appended to a non-empty buffer without a flush only if the
\* space-joined result is at most chunk_size characters long; "A. B. C. D."
\* with chunk_size 4 and chunk_overlap 0 gives four single-sentence chunks.
C22_FlushBeforeOverflow ==
    Returned /\ strategy = "sentence" =>
        /\ \A i \in 1..Len(groups) :
              \A j \in AppendedWithoutFlush(groups[i]) :
                  JoinedLength(SubSeq(groups[i].sents, 1, j)) <= chunk_size
        /\ text = TextABCD /\ chunk_size = 4 /\ chunk_overlap = 0 =>
              chunks = <<<<"A", ".">>, <<"B", ".">>, <<"C", ".">>, <<"D", ".">>>>

\* The same without an overlap seed in the buffer: there the rule holds.
FlushBeforeOverflowUnseeded ==
    Returned /\ strategy = "sentence" =>
        /\ \A i \in 1..Len(groups) :
              groups[i].seed = 0 =>
                  \A j \in AppendedWithoutFlush(groups[i]) :
                      JoinedLength(SubSeq(groups[i].sents, 1, j)) <= chunk_size
        /\ text = TextABCD /\ chunk_size = 4 /\ chunk_overlap = 0 =>
              chunks = <<<<"A", ".">>, <<"B", ".">>, <<"C", ".">>, <<"D", ".">>>>

\* A seeded buffer overshoots by one character at most.
SeededOvershootsByOne ==
    Returned /\ strategy = "sentence" =>
        \A i \in 1..Len(groups) :
            \A j \in AppendedWithoutFlush(groups[i]) :
                JoinedLength(SubSeq(groups[i].sents, 1, j)) <= chunk_size + 1

\* C23: in sentence chunking with chunk_overlap > 0, the overlap seed carried
\* into the next buffer is a suffix of the flushed sentence list made of whole
\* sentences, and its space-joined length never exceeds chunk_overlap.
C23_SeedWithinOverlap ==
    Returned /\ strategy = "sentence" /\ chunk_overlap > 0 =>
        /\ SeedsAreCarriedOver(groups)
        /\ \A i \in 1..Len(groups) :
              JoinedLength(SubSeq(groups[i].sents, 1, groups[i].seed)) <= chunk_overlap

\* The seed is a suffix of whole sentences, at most one character longer than
\* chunk_overlap.
SeedWithinOverlapPlusOne ==
    Returned /\ strategy = "sentence" /\ chunk_overlap > 0 =>
        /\ SeedsAreCarriedOver(groups)
        /\ \A i \in 1..Len(groups) :
              JoinedLength(SubSeq(groups[i].sents, 1, groups[i].seed)) <= chunk_overlap + 1

(***************************************************************************)
(* Pieces of the recursive split and the chunks they end up in             *)
(***************************************************************************)
\* The first separator of the priority list that occurs in the text; the empty
\* separator occurs in every text.
FirstPresent ==
    separators[SetMin({i \in 1..Len(separators) :
                          separators[i] = <<>> \/ Contains(text, separators[i])})]

\* The text cut at that separator and nowhere else.
WholePieces ==
    IF FirstPresent = <<>> THEN [i \in 1..Len(text) |-> <<text[i]>>]
    ELSE Split(text, FirstPresent)

Oversized(piece) == Len(piece) > chunk_size
InOneChunk(s) == \E c \in 1..Len(chunks) : Contains(chunks[c], s)

TrimmedParagraphs ==
    LET kept == SelectSeq(Split(text, PARA_SEP), HasText)
    IN [i \in 1..Len(kept) |-> Strip(kept[i])]

\* The last n characters of s, all of s if it is not longer than n.
Trailing(s, n) == IF Len(s) <= n THEN s ELSE SubSeq(s, Len(s) - n + 1, Len(s))

\* C26: paragraph chunking returns one chunk per non-empty trimmed paragraph, in
\* order, whatever chunk_size is: with chunk_overlap = 0 the chunks are the
\* trimmed paragraphs; otherwise the first chunk is the first paragraph and
\* chunk i > 1 is the last chunk_overlap characters of paragraph i - 1 (the
\* whole paragraph if it is not longer), then "\n\n", then paragraph i.
C26_OneChunkPerParagraph ==
    Returned /\ strategy = "paragraph" =>
        /\ Len(chunks) = Len(TrimmedParagraphs)
        /\ \A i \in 1..Len(chunks) :
              chunks[i] =
                 IF chunk_overlap = 0 \/ i = 1 THEN TrimmedParagraphs[i]
                 ELSE Trailing(TrimmedParagraphs[i - 1], chunk_overlap)
                        \o PARA_SEP \o TrimmedParagraphs[i]

\* C26 witness: "ab\n\nc" with chunk_overlap 1 and a chunk_size of 0 has given
\* "ab" and "b\n\nc".
C26_Witness ==
    /\ Returned
    /\ strategy = "paragraph"
    /\ chunk_size = 0
    /\ chunk_overlap = 1
    /\ text = <<"a", "b", "\n", "\n", "c">>
    /\ chunks = <<<<"a", "b">>, <<"b", "\n", "\n", "c">>>>

\* A blank paragraph between two others has been dropped.
BlankParagraphDropped ==
    /\ Returned
    /\ strategy = "paragraph"
    /\ chunk_overlap = 0
    /\ text = <<"a", "\n", "\n", " ", "\n", "\n", "b", "c">>
    /\ chunks = <<<<"a">>, <<"b", "c">>>>

(***************************************************************************)
(* Length of the chunks of Chunker._recursive_split                        *)
(***************************************************************************)
\* L: the length of the longest piece of the split.
LongestPiece == SetMax({Len(WholePieces[i]) : i \in 1..Len(WholePieces)} \cup {0})
LengthBound == Max2(chunk_size, chunk_overlap + LongestPiece + Len(FirstPresent))

MaxNeg == 2

LoopSizes == (0 - MaxNeg)..MaxSize
LoopOverlaps == (0 - MaxNeg)..MaxOverlap
LoopTexts == SeqsUpTo({"a", " "}, MaxLen) \cup {TextAbcdefghij}

\* Chunker(strategy="fixed", chunk_size, chunk_overlap)
InitFixedLoop ==
    /\ strategy = "fixed"
    /\ chunk_size \in LoopSizes
    /\ chunk_overlap \in LoopOverlaps
    /\ tokenizer = "unset"
    /\ pc = "constructed"
    /\ text = <<>>
    /\ chunks = <<>>
    /\ groups = <<>>
    /\ loop_start = 0
    /\ RetrIdle /\ MetIdle /\ EvalIdle

\* chunk_text calls _fixed_size_chunking: chunks = [], start = 0
FixedEnter(t) ==
    /\ pc = "constructed"
    /\ t # <<>>
    /\ strategy = "fixed"
    /\ pc' = "loop"
    /\ text' = t
    /\ chunks' = <<>>
    /\ loop_start' = 0
    /\ UNCHANGED <<strategy, chunk_size, chunk_overlap, tokenizer, groups, retrVars, metVars,
                   evalVars>>

\* One pass of "while start < text_len": the window is cut and kept if it is
\* not blank, start is advanced, and the loop is left if chunk_size <=
\* chunk_overlap.
FixedPass ==
    /\ pc = "loop"
    /\ loop_start < Len(text)
    /\ LET end == loop_start + chunk_size
           chunk == PySlice(text, loop_start, end)
       IN chunks' = IF keep_chunk(chunk) THEN Append(chunks, chunk) ELSE chunks
    /\ loop_start' = next_start(loop_start, chunk_size, chunk_overlap)
    /\ pc' = IF loop_guard(chunk_size, chunk_overlap) THEN "returned" ELSE "loop"
    /\ UNCHANGED <<strategy, chunk_size, chunk_overlap, tokenizer, text, groups, retrVars,
                   metVars, evalVars>>

\* The loop condition fails: return chunks
FixedExit ==
    /\ pc = "loop"
    /\ ~(loop_start < Len(text))
    /\ pc' = "returned"
    /\ UNCHANGED <<strategy, chunk_size, chunk_overlap, tokenizer, text, chunks, groups,
                   loop_start, retrVars, metVars, evalVars>>

NextFixedLoop ==
    \/ \E t \in LoopTexts : ChunkEmpty(t) \/ FixedEnter(t)
    \/ FixedPass
    \/ FixedExit

\* A call that has started is not suspended for ever.
SpecFixedLoop == InitFixedLoop /\ [][NextFixedLoop]_vars /\ WF_vars(NextFixedLoop)

\* The loop, pass by pass, returns what fixed_size_chunking computes.
LoopAgreesWithFunction ==
    pc = "returned" /\ text # <<>> =>
        chunks = fixed_size_chunking(text, chunk_size, chunk_overlap)

\* With chunk_overlap >= chunk_size a single pass is made: start has been
\* advanced once, and at most one chunk is returned, the first chunk_size
\* characters of the text (for a negative chunk_size the slice text[0:chunk_size],
\* the text without its last -chunk_size characters).
SinglePass ==
    pc = "returned" /\ text # <<>> /\ chunk_overlap >= chunk_size =>
        /\ loop_start = chunk_size - chunk_overlap
        /\ Len(chunks) <= 1
        /\ chunks # <<>> =>
              chunks[1] = IF chunk_size >= 0
                          THEN SubSeq(text, 1, Min2(chunk_size, Len(text)))
                          ELSE SubSeq(text, 1, Max2(Len(text) + chunk_size, 0))

\* With chunk_overlap < chunk_size the window start only moves forward, and the
\* loop is left when it has reached the end of the text.
RunsToTheEnd ==
    /\ pc = "loop" /\ chunk_overlap < chunk_size =>
          /\ loop_start >= 0
          /\ Len(chunks) * (chunk_size - chunk_overlap) <= loop_start
    /\ pc = "returned" /\ text # <<>> /\ chunk_overlap < chunk_size =>
          /\ loop_start >= Len(text)
          /\ loop_start < Len(text) + (chunk_size - chunk_overlap)

NegativeSizeTerminated ==
    /\ pc = "returned"
    /\ chunk_size < 0
    /\ chunk_overlap < chunk_size
    /\ text = TextAbcdefghij
    /\ loop_start >= Len(text)

(***************************************************************************)
(* The chunk list of an experiment and the paper ids that go with it       *)
(***************************************************************************)
LongEnough(chunk) == Len(chunk) >= MinChunkLen

\* What the chunker returns for the text of a paper; nothing for a paper
\* without readable text.
ChunkerOutput(id) ==
    IF storage[id].kind = "pdf"
    THEN chunk_text(strategy, chunk_size, chunk_overlap, tokenizer, storage[id].text)
    ELSE <<>>

\* The chunks of the papers ps in paper order and, within a paper, in chunker
\* order, the chunks of fewer than 50 characters left out; with ids, the paper
\* id in the place of each chunk.
RECURSIVE ChunksInPaperOrder(_, _)
ChunksInPaperOrder(ps, ids) ==
    IF ps = <<>> THEN <<>>
    ELSE LET own == SelectSeq(ChunkerOutput(Head(ps)), LongEnough)
         IN (IF ids THEN [i \in 1..Len(own) |-> Head(ps)] ELSE own)
            \o ChunksInPaperOrder(Tail(ps), ids)

AfterChunking == epc = "Embedding" /\ running \in {"run_experiment", "run_rag_experiment"}

\* C27: after the chunking phase of run_experiment and of _prepare_chunks,
\* all_chunks and doc_indices have the same length, every chunk in all_chunks
\* has at least 50 characters, and doc_indices[i] is the id of the paper whose
\* text produced all_chunks[i], the chunks being in paper order and, within a
\* paper, in chunker order.
C27_ChunksAndTheirPapers ==
    AfterChunking =>
        /\ Len(all_chunks) = Len(doc_indices)
        /\ \A i \in 1..Len(all_chunks) : Len(all_chunks[i]) >= MinChunkLen
        /\ all_chunks = ChunksInPaperOrder(papers, FALSE)
        /\ doc_indices = ChunksInPaperOrder(papers, TRUE)

\* C27 witness: the chunking of two papers is over; chunks of both papers were
\* kept and a chunk of fewer than 50 characters was dropped.
C27_Witness ==
    /\ AfterChunking
    /\ Len(papers) = 2
    /\ \E i, j \in 1..Len(doc_indices) : doc_indices[i] # doc_indices[j]
    /\ \E id \in {papers[1], papers[2]} :
          \E c \in 1..Len(ChunkerOutput(id)) : ~LongEnough(ChunkerOutput(id)[c])

(***************************************************************************)
(* What the evaluation of a query reads and what it leaves alone           *)
(***************************************************************************)
\* The paper ids _retrieve_chunks can return for a query on the chunk list as
\* it is now.
RetrievableIds(query) ==
    {[i \in 1..Len(top_k(order, k)) |-> doc_indices[top_k(order, k)[i] + 1]] :
        order \in argsort(cosine_similarity(embed_passages(<<query>>), chunk_embeddings))}

\* The record of the i-th query is that of its own retrieval and its own
\* response, whatever was evaluated before it.
RecordFromOwnQuery(i) ==
    LET q == test_queries[i]
        r == responses[i]
    IN /\ r.retrieved_ids \in RetrievableIds(q.query)
       /\ r.text = generated_response(r.outcome, q.reference)
       /\ all_query_metrics[i] =
              calculate_all_metrics(r.text, q.reference, r.retrieved_ids, <<q.paper_id>>, k)

RecordsFromOwnQueries ==
    running = "run_rag_experiment" =>
        /\ Len(responses) = Len(all_query_metrics)
        /\ \A i \in 1..Len(all_query_metrics) : RecordFromOwnQuery(i)

PaperEvaluated ==
    running = "run_experiment" /\ epc = "Retrieval" /\ epc' = "Retrieval"
        /\ query_i' = query_i + 1

\* The ranks, from 1, of the chunks of the paper among the chunks retrieved in
\* this turn.
RanksOfTarget ==
    {r \in 1..Len(top_k_indices') : doc_indices[top_k_indices'[r] + 1] = papers[query_i]}

\* At most one hit per query, only if a chunk of the paper is among the (at
\* most 5) chunks retrieved, and the reciprocal of the first such rank.
OneHitPerQuery ==
    PaperEvaluated =>
        /\ Len(top_k_indices') <= 5
        /\ hits' = hits + (IF RanksOfTarget = {} THEN 0 ELSE 1)
        /\ reciprocal_ranks' * SetMin(RanksOfTarget \cup {5})
              = reciprocal_ranks * SetMin(RanksOfTarget \cup {5})
                  + (IF RanksOfTarget = {} THEN 0 ELSE SixtiethsOfOne)

BasicReturned == running = "run_experiment" /\ epc = "Done"

\* 0 <= mrr <= hit_rate <= 1, mrr is 0 exactly when hit_rate is 0, and
\* num_chunks counts the chunks that passed the length filter.
MetricsInRange ==
    BasicReturned =>
        LET hit_rate == experiment_result.hit_rate
            mrr == experiment_result.mrr
        IN /\ hit_rate.den > 0 /\ mrr.den > 0
           /\ 0 <= mrr.num
           /\ mrr.num * hit_rate.den <= hit_rate.num * mrr.den
           /\ hit_rate.num <= hit_rate.den
           /\ mrr.num = 0 <=> hit_rate.num = 0
           /\ experiment_result.num_chunks = Len(ChunksInPaperOrder(papers, FALSE))

PaperMissed ==
    /\ BasicReturned
    /\ Len(papers) = 2
    /\ experiment_result.hit_rate.num = 1
    /\ experiment_result.num_chunks > 0

====
